---- MODULE Spec2Model ----
(***************************************************************************)
(* Model of the FINS/UDP bridge: the address parser, the request engine    *)
(* of FinsUdpConnection (read, batch_read, multiple_read over              *)
(* execute_fins_command_frame) and the per-PLC poller PLCTask running on   *)
(* the asyncio event loop together with its sink tasks and the queue       *)
(* processor.                                                              *)
(***************************************************************************)
EXTENDS Integers, Sequences, FiniteSets, TLC

(***************************************************************************)
(* Program constants.                                                      *)
(***************************************************************************)
MAX_CHUNK_SIZE == 990
MAX_READ_SIZE == 65535
MAX_RETRIES == 3
threshold == 3
batch_size == 20
max_wait_time == 60
json_poll == 2
COUNTER_OFFSET == 2048
MAX_WORD_ADDRESS == 65535

(***************************************************************************)
(* Bounds of the model.                                                    *)
(***************************************************************************)
MaxChunks == 2
MaxCycles == 2

(***************************************************************************)
(* Strings are sequences of one-character strings.                         *)
(***************************************************************************)
Digits == {"0", "1", "2", "3", "4", "5", "6", "7", "8", "9"}

DigitVal(c) ==
  CASE c = "0" -> 0 [] c = "1" -> 1 [] c = "2" -> 2 [] c = "3" -> 3
    [] c = "4" -> 4 [] c = "5" -> 5 [] c = "6" -> 6 [] c = "7" -> 7
    [] c = "8" -> 8 [] c = "9" -> 9

Upper(c) ==
  CASE c = "d" -> "D" [] c = "w" -> "W" [] c = "e" -> "E" [] c = "m" -> "M"
    [] c = "a" -> "A" [] c = "c" -> "C" [] c = "h" -> "H" [] c = "t" -> "T"
    [] c = "b" -> "B" [] c = "f" -> "F" [] c = "g" -> "G" [] c = "x" -> "X"
    [] c = "z" -> "Z" [] OTHER -> c

UpperStr(s) == [i \in 1..Len(s) |-> Upper(s[i])]

isdigit(s) == Len(s) > 0 /\ \A i \in 1..Len(s) : s[i] \in Digits

Contains(s, c) == \E i \in 1..Len(s) : s[i] = c

CountOf(s, c) == Cardinality({i \in 1..Len(s) : s[i] = c})

IndexOf(s, c) == CHOOSE i \in 1..Len(s) : s[i] = c /\ \A j \in 1..(i - 1) : s[j] # c

Drop(s, k) == IF k >= Len(s) THEN <<>> ELSE SubSeq(s, k + 1, Len(s))

Take(s, k) == IF k >= Len(s) THEN s ELSE SubSeq(s, 1, k)

\* int(s) of a string of decimal digits
RECURSIVE DecValue(_)
DecValue(s) ==
  IF Len(s) = 0 THEN 0
  ELSE 10 * DecValue(SubSeq(s, 1, Len(s) - 1)) + DigitVal(s[Len(s)])

\* int(s) succeeds
IsInt(s) == isdigit(s)

(***************************************************************************)
(* FinsAddressParser                                                       *)
(***************************************************************************)
NoBit == -1

em_single_banks ==
  [c \in Digits \cup {"A", "B", "C", "D", "E", "F"} |->
     CASE c = "0" -> "EM0" [] c = "1" -> "EM1" [] c = "2" -> "EM2"
       [] c = "3" -> "EM3" [] c = "4" -> "EM4" [] c = "5" -> "EM5"
       [] c = "6" -> "EM6" [] c = "7" -> "EM7" [] c = "8" -> "EM8"
       [] c = "9" -> "EM9" [] c = "A" -> "EMA" [] c = "B" -> "EMB"
       [] c = "C" -> "EMC" [] c = "D" -> "EMD" [] c = "E" -> "EME"
       [] c = "F" -> "EMF"]

em_double_banks ==
  [b \in {<<"1", d>> : d \in {"0", "1", "2", "3", "4", "5", "6", "7", "8"}} |->
     CASE b[2] = "0" -> "EM10" [] b[2] = "1" -> "EM11" [] b[2] = "2" -> "EM12"
       [] b[2] = "3" -> "EM13" [] b[2] = "4" -> "EM14" [] b[2] = "5" -> "EM15"
       [] b[2] = "6" -> "EM16" [] b[2] = "7" -> "EM17" [] b[2] = "8" -> "EM18"]

ParseError(e) == [ok |-> FALSE, exc |-> e]

\* (prefix, remaining_address); the empty address has no prefix
get_address_prefix_info(address) ==
  LET up == UpperStr(address) IN
  IF Len(up) >= 2 /\ Take(up, 2) = <<"E", "M">>
    THEN [ok |-> TRUE, prefix |-> "EM", addr_part |-> Drop(address, 2)]
  ELSE IF Len(address) > 0
    THEN [ok |-> TRUE, prefix |-> up[1], addr_part |-> Drop(address, 1)]
  ELSE ParseError("ValueError")

\* final_addr.to_bytes(2, 'big') and the returned tuple
ToOffsetBytes(area, access, final_addr, bit_num) ==
  IF final_addr < 0 \/ final_addr > MAX_WORD_ADDRESS
    THEN ParseError("OverflowError")
  ELSE [ok |-> TRUE, memory_area |-> area, access |-> access,
        word_address |-> final_addr, bit_number |-> bit_num]

\* final_addr with the offset left out
final_addr_NoOffset(addr_num, offset) == addr_num

\* final_addr = addr_num + offset
final_addr(addr_num, offset) == addr_num + offset

\* The if/elif chain on the prefix, shared in shape by both parse methods.
PrefixBranch(prefix, addr_part, addr_num, offset, access, bit_num, em_digits_min) ==
  CASE prefix = "D" -> ToOffsetBytes("DATA_MEMORY", access, final_addr(addr_num, offset), bit_num)
    [] prefix = "W" -> ToOffsetBytes("WORK", access, final_addr(addr_num, offset), bit_num)
    [] prefix = "H" -> ToOffsetBytes("HOLDING", access, final_addr(addr_num, offset), bit_num)
    [] prefix = "A" -> ToOffsetBytes("AUXILIARY", access, final_addr(addr_num, offset), bit_num)
    [] prefix = "Z" -> ToOffsetBytes("CIO", access, final_addr(addr_num, offset), bit_num)
    [] prefix = "E" ->
         IF Len(addr_part) < 3 THEN ParseError("ValueError")
         ELSE IF Upper(addr_part[1]) \in DOMAIN em_single_banks
           THEN IF IsInt(Drop(addr_part, 1))
                  THEN ToOffsetBytes(em_single_banks[Upper(addr_part[1])], access,
                                     final_addr(DecValue(Drop(addr_part, 1)), offset), bit_num)
                  ELSE ParseError("ValueError")
           ELSE ParseError("ValueError")
    [] prefix = "EM" ->
         IF Len(addr_part) < 3 THEN ParseError("ValueError")
         ELSE IF Len(addr_part) >= em_digits_min /\ isdigit(Take(addr_part, 2))
           THEN IF Take(addr_part, 2) \in DOMAIN em_double_banks
                  THEN IF IsInt(Drop(addr_part, 2))
                         THEN ToOffsetBytes(em_double_banks[Take(addr_part, 2)], access,
                                            final_addr(DecValue(Drop(addr_part, 2)), offset), bit_num)
                         ELSE ParseError("ValueError")
                  ELSE ParseError("ValueError")
           ELSE ParseError("ValueError")
    [] prefix = "T" ->
         ToOffsetBytes("TIMER", IF access = "BIT" THEN "FLAG" ELSE access,
                       final_addr(addr_num, offset), bit_num)
    [] prefix = "C" ->
         IF access = "BIT"
           THEN ToOffsetBytes("COUNTER", "FLAG", final_addr(addr_num, offset), bit_num)
           ELSE ToOffsetBytes("COUNTER", access, final_addr(addr_num + COUNTER_OFFSET, offset), bit_num)
    [] OTHER -> ParseError("ValueError")

parse_address(address, offset) ==
  IF Len(address) = 0 THEN ParseError("ValueError")
  ELSE
    LET p == get_address_prefix_info(address) IN
    IF ~IsInt(p.addr_part) THEN ParseError("ValueError")
    ELSE PrefixBranch(p.prefix, p.addr_part, DecValue(p.addr_part), offset,
                      "WORD", NoBit, 3)

\* the range test of the bit number with 16 let through
valid_bit_Sixteen(bit_num) == 0 <= bit_num /\ bit_num <= 16

\* 0 <= bit_num <= 15
valid_bit(bit_num) == 0 <= bit_num /\ bit_num <= 15

parse_bit_address(address, offset) ==
  IF CountOf(address, ".") # 1 THEN ParseError("ValueError")
  ELSE
    LET dot == IndexOf(address, ".")
        base_addr == Take(address, dot - 1)
        bit_str == Drop(address, dot)
    IN
    IF ~IsInt(bit_str) THEN ParseError("ValueError")
    ELSE IF ~valid_bit(DecValue(bit_str)) THEN ParseError("ValueError")
    ELSE
      LET p == get_address_prefix_info(base_addr) IN
      IF ~p.ok THEN ParseError("ValueError")
      ELSE IF ~IsInt(p.addr_part) /\ p.prefix # "E" THEN ParseError("ValueError")
      ELSE PrefixBranch(p.prefix, p.addr_part,
                        IF IsInt(p.addr_part) THEN DecValue(p.addr_part) ELSE 0,
                        offset, "BIT", DecValue(bit_str), 2)

parse(address, offset) ==
  IF Len(address) = 0 THEN ParseError("ValueError")
  ELSE
    LET addr == IF Upper(address[1]) \in Digits THEN <<"Z">> \o address ELSE address IN
    IF Contains(addr, ".")
      THEN LET r == parse_bit_address(addr, offset) IN
           IF r.ok THEN r @@ [address_type |-> "bit"] ELSE r
      ELSE LET r == parse_address(addr, offset) IN
           IF r.ok THEN r @@ [address_type |-> "word"] ELSE r

(***************************************************************************)
(* Request engine: FinsUdpConnection                                       *)
(***************************************************************************)
\* udp_connection.DATA_TYPE_MAPPING: words per item of every known type
DATA_TYPE_MAPPING ==
  [t \in {"INT16", "UINT16", "INT32", "UINT32", "INT64", "UINT64", "FLOAT",
          "DOUBLE", "BCD2DEC", "BOOL", "CHANNEL", "WORD", "UDINT", "BIN", "BITS"} |->
     CASE t \in {"INT32", "UINT32", "FLOAT", "UDINT"} -> 2
       [] t \in {"INT64", "UINT64", "DOUBLE"} -> 4
       [] OTHER -> 1]

validate_data_type(data_type) == data_type \in DOMAIN DATA_TYPE_MAPPING

\* exception_rules.validate_address: an empty address is refused
validate_address(address) == Len(address) > 0

\* exception_rules.validate_read_size
validate_read_size(n) == n >= 1 /\ n <= MAX_READ_SIZE

RECURSIVE calculate_read_chunks_from(_, _)
calculate_read_chunks_from(offset, remaining) ==
  IF remaining > 0
    THEN LET chunk_size == IF remaining < MAX_CHUNK_SIZE THEN remaining ELSE MAX_CHUNK_SIZE
         IN <<[offset |-> offset, size |-> chunk_size]>>
              \o calculate_read_chunks_from(offset + chunk_size, remaining - chunk_size)
    ELSE <<>>

\* only the chunks of full size, without the shorter chunk at the end
calculate_read_chunks_FullOnly(total_words) ==
  calculate_read_chunks_from(0, (total_words \div MAX_CHUNK_SIZE) * MAX_CHUNK_SIZE)

\* _calculate_read_chunks
calculate_read_chunks(total_words) == calculate_read_chunks_from(0, total_words)

\* The word the PLC holds at a word address (the device, not the program).
PlcWord(w) == (w * 4099) % 65536

\* A nibble of a word above 9 makes bcd_to_decimal fail.
RECURSIVE HasBadNibble(_, _)
HasBadNibble(w, k) ==
  IF k = 0 THEN FALSE ELSE (w % 16 > 9) \/ HasBadNibble(w \div 16, k - 1)

Null == [null |-> TRUE]

\* conversion_function(item_words): the typed value, or a conversion error
Convert(data_type, words) ==
  IF data_type = "BCD2DEC" /\ \E i \in 1..Len(words) : HasBadNibble(words[i], 4)
    THEN [ok |-> FALSE]
  ELSE IF data_type \in {"INT16", "BOOL"}
    THEN [ok |-> TRUE,
          value |-> [i \in 1..Len(words) |->
                       IF words[i] >= 32768 THEN words[i] - 65536 ELSE words[i]]]
  ELSE [ok |-> TRUE, value |-> words]

\* _build_read_command_frame: command 0101, area, word address, bit, count
build_read_command_frame(info, read_size) ==
  [command |-> "MEMORY_AREA_READ", memory_area |-> info.memory_area,
   access |-> info.access, word_address |-> info.word_address,
   bit |-> IF info.address_type = "bit" THEN info.bit_number ELSE 0,
   count |-> read_size]

NoResult == [status |-> "", message |-> "", data |-> Null]

NoOp == [name |-> "none"]

EngineIdle ==
  [pc |-> "idle", op |-> NoOp, chunks |-> <<>>, ci |-> 0, attempt |-> 0,
   data |-> <<>>, sent |-> <<>>, result |-> NoResult, exc |-> "none",
   x_log |-> <<>>, x_result |-> "none", x_sends |-> 0, x_from |-> 0,
   bad_end_at |-> 0]

\* items of words_per_item words cut from the accumulated data
ItemsOf(data, data_type) ==
  LET wpi == DATA_TYPE_MAPPING[data_type]
      num_items == Len(data) \div wpi
  IN [i \in 1..num_items |->
        LET c == Convert(data_type, SubSeq(data, (i - 1) * wpi + 1, i * wpi))
        IN IF c.ok THEN c.value ELSE Null]

Raise(e, exc) == [e EXCEPT !.pc = "raised", !.exc = exc]

Return(e, status, message, data) ==
  [e EXCEPT !.pc = "returned",
            !.result = [status |-> status, message |-> message, data |-> data]]

\* _process_final_data / _process_batch_read_success
ProcessSuccess(e) ==
  IF e.op.name = "read"
    THEN LET c == Convert(e.op.data_type, e.data) IN
         IF c.ok THEN Return(e, "success", "Read successful", c.value)
         ELSE Return(e, "error", "Data conversion error", <<>>)
    ELSE Return(e, "success", "Batch read successful", ItemsOf(e.data, e.op.data_type))

\* OnChunkError where the loop goes on to the next chunk after a failed one
OnChunkError_Continue(e, message) ==
  IF /\ message = "end code"
     /\ e.ci < Len(e.chunks)
     /\ parse(e.op.address, e.chunks[e.ci + 1].offset).ok
    THEN [e EXCEPT !.pc = "send", !.ci = @ + 1, !.attempt = 0]
  ELSE Return(e, "error", message, <<>>)

\* OnChunkError where _read_chunk lets a communication exception escape
OnChunkError_Escape(e, message) ==
  IF message = "Communication error" THEN Raise(e, "FinsConnectionError")
  ELSE Return(e, "error", message, <<>>)

\* read: chunk_data is None -> return final_result;
\* batch_read: _handle_batch_read_error, then return final_result
OnChunkError(e, message) ==
  IF e.op.name = "read"
    THEN Return(e, "error", message, IF message = "end code" THEN <<>> ELSE Null)
    ELSE Return(e, "error", message, ItemsOf(e.data, e.op.data_type))

\* _read_chunk up to the call of execute_fins_command_frame: the chunk's
\* address is parsed outside any try block, the frame is built, and a
\* connection that is not open makes execute_fins_command_frame raise
\* at once, which _read_chunk catches.
EnterChunk(e, conn, k) ==
  LET info == parse(e.op.address, e.chunks[k].offset) IN
  IF ~info.ok THEN Raise(e, info.exc)
  ELSE
    LET e1 == [e EXCEPT !.ci = k, !.attempt = 0]
    IN IF ~conn
         THEN OnChunkError([e1 EXCEPT !.x_log = <<>>, !.x_sends = 0, !.x_from = 0,
                                      !.x_result = "FinsConnectionError"],
                           "Communication error")
         ELSE [e1 EXCEPT !.pc = "send"]

\* the chunk loop of read and batch_read after the chunks are known
StartChunks(e, conn) ==
  IF Len(e.chunks) = 0 THEN ProcessSuccess(e) ELSE EnterChunk(e, conn, 1)

\* read(memory_area_code, data_type)
read(conn, address, data_type) ==
  LET e == [EngineIdle EXCEPT
              !.op = [name |-> "read", address |-> address,
                      data_type |-> data_type, n |-> 1]]
  IN
  IF ~validate_address(address) THEN Raise(e, "FinsAddressError")
  ELSE IF ~validate_data_type(data_type) THEN Raise(e, "FinsDataError")
  ELSE IF ~parse(address, 0).ok THEN Raise(e, "FinsAddressError")
  ELSE
    LET readsize == IF Contains(address, ".") THEN 1 ELSE DATA_TYPE_MAPPING[data_type]
    IN StartChunks([e EXCEPT !.chunks = calculate_read_chunks(readsize)], conn)

\* batch_read(memory_area_code, data_type, no_items_to_read)
batch_read(conn, address, data_type, n) ==
  LET e == [EngineIdle EXCEPT
              !.op = [name |-> "batch_read", address |-> address,
                      data_type |-> data_type, n |-> n]]
  IN
  IF ~validate_address(address) THEN Raise(e, "FinsAddressError")
  ELSE IF ~validate_read_size(n) THEN Raise(e, "FinsDataError")
  ELSE IF ~validate_data_type(data_type) THEN Raise(e, "FinsDataError")
  ELSE IF ~parse(address, 0).ok THEN Raise(e, "FinsAddressError")
  ELSE
    LET readsize == n * DATA_TYPE_MAPPING[data_type]
    IN StartChunks([e EXCEPT !.chunks = calculate_read_chunks(readsize)], conn)

\* multiple_read(dict_memory_codes): the loop that builds data_part appends
\* info['memory_type_code'], an int, to a bytes object, which raises
\* TypeError at the first entry outside any try block; the request is
\* never built, so the send and the decoding below it are not reached.
multiple_read(conn, items) ==
  LET e == [EngineIdle EXCEPT !.op = [name |-> "multiple_read", items |-> items]]
  IN
  IF Len(items) = 0 THEN Raise(e, "FinsDataError")
  ELSE IF ~validate_address(items[1].address) THEN Raise(e, "FinsAddressError")
  ELSE IF ~parse(items[1].address, 0).ok THEN Raise(e, "FinsAddressError")
  ELSE Raise(e, "TypeError")

(***************************************************************************)
(* execute_fins_command_frame, one attempt at a time                       *)
(***************************************************************************)
Outcomes == {"ok", "endcode", "short", "timeout", "sockerr"}

IsResponse(out) == out \in {"ok", "endcode", "short"}

\* AttemptResult with the retry bound off by one
AttemptResult_OneMore(attempt, out) ==
  IF IsResponse(out) THEN "bytes"
  ELSE IF attempt < MAX_RETRIES THEN "retry"
  ELSE IF out = "timeout" THEN "FinsTimeoutError"
  ELSE "FinsConnectionError"

\* what one pass of the retry loop leads to: the received bytes, a sleep
\* and another pass, or the exception raised after the last pass
AttemptResult(attempt, out) ==
  IF IsResponse(out) THEN "bytes"
  ELSE IF attempt < MAX_RETRIES - 1 THEN "retry"
  ELSE IF out = "timeout" THEN "FinsTimeoutError"
  ELSE "FinsConnectionError"

\* execute_fins_command_frame, one pass of its loop: sendto, recv and the
\* except clauses
execute_fins_command_frame(e, frame, out) ==
  LET res == AttemptResult(e.attempt, out) IN
  [e EXCEPT !.sent = Append(@, frame),
            !.x_sends = IF e.attempt = 0 THEN 1 ELSE @ + 1,
            !.x_log = IF e.attempt = 0 THEN <<out>> ELSE Append(@, out),
            !.x_from = IF res = "bytes" THEN e.attempt + 1 ELSE 0,
            !.x_result = IF res = "retry" THEN "none" ELSE res,
            !.attempt = IF res = "retry" THEN @ + 1 ELSE @,
            !.pc = IF res = "retry" THEN "backoff" ELSE @]

\* the words of response_frame.text for a successful read of one chunk
ResponseText(frame) ==
  [i \in 1..frame.count |-> PlcWord(frame.word_address + i - 1)]

\* read / batch_read after a chunk was read: next chunk or final processing
AfterChunk(e, conn) ==
  IF e.ci < Len(e.chunks) THEN EnterChunk(e, conn, e.ci + 1) ELSE ProcessSuccess(e)

\* _read_chunk from the send on: execute_fins_command_frame,
\* _parse_response, _check_response
read_chunk(e, conn, out) ==
  LET chunk == e.chunks[e.ci]
      frame == build_read_command_frame(parse(e.op.address, chunk.offset), chunk.size)
      e1 == execute_fins_command_frame(e, frame, out)
  IN
  CASE e1.x_result = "none" -> e1
    [] e1.x_result \in {"FinsTimeoutError", "FinsConnectionError"} ->
         OnChunkError(e1, "Communication error")
    [] OTHER ->
         CASE out = "short" -> OnChunkError(e1, "Communication error")
           [] out = "endcode" ->
                OnChunkError([e1 EXCEPT !.bad_end_at = Len(e1.sent)], "end code")
           [] OTHER -> AfterChunk([e1 EXCEPT !.data = @ \o ResponseText(frame)], conn)

(***************************************************************************)
(* multiple_read: decoding of the response text                            *)
(***************************************************************************)
\* FinsPLCMemoryAreas: the area code byte of word access
WordAreaCode(area) ==
  CASE area = "DATA_MEMORY" -> 130
    [] area = "WORK" -> 177
    [] area = "CIO" -> 176
    [] area = "HOLDING" -> 178
    [] area = "AUXILIARY" -> 179
    [] OTHER -> 0

\* text[a:b] of Python, 0-based, clipped to the text
Slice(text, a, b) ==
  LET hi == IF b > Len(text) THEN Len(text) ELSE b IN
  IF a >= hi THEN <<>> ELSE SubSeq(text, a + 1, hi)

\* big-endian words of an even number of bytes
BytesToWords(b) == [i \in 1..(Len(b) \div 2) |-> b[2 * i - 1] * 256 + b[2 * i]]

\* the loop over item_list that fills updated_dict, from data_index on
RECURSIVE DecodeItems(_, _, _)
DecodeItems(items, text, data_index) ==
  IF Len(items) = 0 THEN <<>>
  ELSE
    LET bytes_per_item == DATA_TYPE_MAPPING[Head(items).data_type] * 2
        item_bytes == Slice(text, data_index, data_index + bytes_per_item)
        c == Convert(Head(items).data_type, BytesToWords(item_bytes))
        entry == IF Len(item_bytes) < bytes_per_item
                   THEN [error |-> "Insufficient data in response"]
                 ELSE IF c.ok
                   THEN [type |-> Head(items).data_type, value |-> c.value]
                 ELSE [error |-> "Conversion failed"]
    IN <<entry>> \o DecodeItems(Tail(items), text, data_index + bytes_per_item)

\* the is_success branch of multiple_read
multiple_read_decode(items, text) ==
  IF \E i \in 1..Len(items) : ~validate_data_type(items[i].data_type)
    THEN [status |-> "error", message |-> "An unexpected error occurred", data |-> <<>>]
  ELSE [status |-> "success", message |-> "Multiple Memory Area Read Successful",
        data |-> DecodeItems(items, text, 0)]

(***************************************************************************)
(* State                                                                   *)
(***************************************************************************)
VARIABLES eng, connected, dec, plc, run, loop, queue, qp, tasks, pollers, sockets,
          sup, udp, call

vars ==
  <<eng, connected, dec, plc, run, loop, queue, qp, tasks, pollers, sockets,
    sup, udp, call>>

notEngine == <<dec, plc, run, loop, queue, qp, tasks, pollers, sockets, sup, udp, call>>

notDecode ==
  <<eng, connected, plc, run, loop, queue, qp, tasks, pollers, sockets, sup, udp, call>>

notPoller == <<dec, pollers, sockets, sup, udp, call>>

DecIdle == [items |-> <<>>, values |-> <<>>, text |-> <<>>, done |-> FALSE, out |-> NoResult]

(***************************************************************************)
(* main.py: values shared by PLCTask, its sink tasks, the queue processor  *)
(* and the signal handler                                                  *)
(***************************************************************************)
PLC1 == <<"P", "L", "C", "1">>

HEARTBEAT == <<"H", "E", "A", "R", "T", "B", "E", "A", "T">>

\* the tasks of the event loop: the poller, the queue processor, and the
\* sink tasks of a cycle
PollerTask == [kind |-> "plc", cycle |-> 0, k |-> 0]

QueueTask == [kind |-> "queue", cycle |-> 0, k |-> 0]

SinkTask(kind, cycle, k) == [kind |-> kind, cycle |-> cycle, k |-> k]

\* the names set with task.set_name
get_name(t) ==
  CASE t.kind = "plc" -> PLC1
    [] t.kind = "queue" -> <<"queue_processor">>
    [] t.kind = "csv" -> PLC1 \o <<"_csv_write">>
    [] OTHER -> PLC1 \o <<"_opcua_write">>

\* a in b of Python strings
IsSubstring(a, b) ==
  \E i \in 0..(Len(b) - Len(a)) : SubSeq(b, i + 1, i + Len(a)) = a

\* f"{self.name}-..." put on the control queue
MessageOf(name, text) == name \o <<text>>

Message(text) == MessageOf(PLC1, text)

\* for task in tasks[:]: if task.get_name() in message: ... break
\* the position of the first name of the list that occurs in the message, or 0
MatchingName(names, message) ==
  LET hits == {i \in 1..Len(names) : IsSubstring(names[i], message)} IN
  IF hits = {} THEN 0 ELSE CHOOSE i \in hits : \A j \in hits : i <= j

TooManyErrorsText == "-too many errors"

FinsConnectionErrorText == "-fins connection error"

Unset == [unset |-> TRUE]

Val(v) == [v |-> v]

PlcOff ==
  [csv_enabled |-> FALSE, mappings |-> <<>>, groups |-> <<>>, singles |-> <<>>,
   failed_to_read |-> 0, failed_to_push |-> 0, stopped |-> FALSE,
   csv_file |-> "none", opcua_connected |-> FALSE, background_tasks |-> {},
   samples |-> <<>>, csv_rows |-> <<>>, published |-> {}]

RunOff ==
  [pc |-> "off", cycle |-> 0, gi |-> 0, ii |-> 0, plc_values |-> <<>>, calls |-> <<>>,
   succeeded |-> {},
   plc_cycle_ok |-> FALSE, wait_time |-> 0, opcua_manager |-> FALSE,
   socket_opened |-> FALSE, exit |-> "none"]

LoopOff == [ready |-> <<>>, busy |-> FALSE, must_cancel |-> {}, signalled |-> FALSE]

QueueOff == [items |-> <<>>, puts |-> <<>>]

\* the supervisor, the transport and the pure functions checked on their own
SupOff == [names |-> <<>>, tasks |-> <<>>, items |-> <<>>, reported |-> {}, cancelled |-> {}]

UdpOff == [on |-> FALSE]

CallOff == [name |-> "none"]

OthersOff == sup = SupOff /\ udp = UdpOff /\ call = CallOff

PollersOff == pollers = <<>> /\ sockets = <<>> /\ OthersOff

PollerOff ==
  /\ plc = PlcOff /\ run = RunOff /\ loop = LoopOff
  /\ queue = QueueOff /\ qp = "off" /\ tasks = <<>>
  /\ PollersOff

(***************************************************************************)
(* The engine driven directly by a caller                                  *)
(***************************************************************************)
A_D100 == <<"D", "1", "0", "0">>
A_D0 == <<"D", "0">>
A_w0 == <<"w", "0">>
A_W0_01 == <<"W", "0", ".", "0", "1">>
A_D100_16 == <<"D", "1", "0", "0", ".", "1", "6">>
A_X100 == <<"X", "1", "0", "0">>
A_D65000 == <<"D", "6", "5", "0", "0", "0">>
A_D70000 == <<"D", "7", "0", "0", "0", "0">>
A_Empty == <<>>

EngineAddresses ==
  {A_D100, A_D0, A_W0_01, A_D100_16, A_X100, A_D65000, A_D70000, A_Empty}

EngineTypes == {"INT16", "INT32", "BCD2DEC", "RAW"}

ItemCounts ==
  {1, 2, MAX_READ_SIZE + 1} \cup {MAX_CHUNK_SIZE * k + 1 : k \in 1..(MaxChunks - 1)}

ItemLists ==
  {<<>>} \cup {<<[address |-> a, data_type |-> t]>> :
                 a \in {A_D100, A_X100}, t \in {"INT16", "RAW"}}
         \cup {<<[address |-> A_D100, data_type |-> "INT16"],
                 [address |-> a, data_type |-> t]>> :
                 a \in {A_w0, A_X100}, t \in {"INT16", "RAW"}}
         \cup {[k \in 1..(batch_size + 1) |-> [address |-> A_D100, data_type |-> "INT16"]]}
         \cup {<<[address |-> A_D100, data_type |-> "BCD2DEC"],
                 [address |-> A_D0, data_type |-> "INT16"]>>}

EngineFree == eng.pc = "idle"

EngInit == eng = EngineIdle /\ connected = TRUE /\ dec = DecIdle /\ PollerOff

EngConnect ==
  /\ EngineFree /\ ~connected
  /\ connected' = TRUE
  /\ UNCHANGED <<eng, notEngine>>

EngDisconnect ==
  /\ EngineFree /\ connected
  /\ connected' = FALSE
  /\ UNCHANGED <<eng, notEngine>>

EngRead ==
  /\ EngineFree
  /\ \E a \in EngineAddresses, t \in EngineTypes : eng' = read(connected, a, t)
  /\ UNCHANGED <<connected, notEngine>>

EngBatchRead ==
  /\ EngineFree
  /\ \E a \in EngineAddresses, t \in EngineTypes, n \in ItemCounts :
       eng' = batch_read(connected, a, t, n)
  /\ UNCHANGED <<connected, notEngine>>

EngMultipleRead ==
  /\ EngineFree
  /\ \E items \in ItemLists : eng' = multiple_read(connected, items)
  /\ UNCHANGED <<connected, notEngine>>

EngAttempt ==
  /\ eng.pc = "send"
  /\ \E out \in Outcomes : eng' = read_chunk(eng, connected, out)
  /\ UNCHANGED <<connected, notEngine>>

EngBackoff ==
  /\ eng.pc = "backoff"
  /\ eng' = [eng EXCEPT !.pc = "send"]
  /\ UNCHANGED <<connected, notEngine>>

\* the caller has taken the result or the exception
EngRelease ==
  /\ eng.pc \in {"returned", "raised"}
  /\ eng' = EngineIdle
  /\ UNCHANGED <<connected, notEngine>>

EngNext ==
  \/ EngRelease
  \/ EngConnect
  \/ EngDisconnect
  \/ EngRead
  \/ EngBatchRead
  \/ EngMultipleRead
  \/ EngAttempt
  \/ EngBackoff

SpecEngine == EngInit /\ [][EngNext]_vars

(***************************************************************************)
(* _calculate_read_chunks on its own                                       *)
(***************************************************************************)
MaxWords == 3000

\* a total word count is given
ChunksInit ==
  /\ \E total_words \in 0..MaxWords :
       eng = [EngineIdle EXCEPT !.op = [name |-> "calculate_read_chunks",
                                        n |-> total_words]]
  /\ connected = TRUE /\ dec = DecIdle /\ PollerOff

ChunksApply ==
  /\ eng.pc = "idle"
  /\ eng' = [eng EXCEPT !.pc = "returned",
                        !.chunks = calculate_read_chunks(eng.op.n)]
  /\ UNCHANGED <<connected, notEngine>>

ChunksNext == ChunksApply

SpecChunks == ChunksInit /\ [][ChunksNext]_vars

(***************************************************************************)
(* execute_fins_command_frame called on its own with a built frame         *)
(***************************************************************************)
ExecFrames ==
  {[command |-> c, memory_area |-> "", access |-> "", word_address |-> 0,
    bit |-> 0, count |-> 0] :
     c \in {"CPU_UNIT_DATA_READ", "CPU_UNIT_STATUS_READ", "CLOCK_READ"}}

\* entry of execute_fins_command_frame: the connection guard before the loop
execute_enter(conn, frame) ==
  LET e == [EngineIdle EXCEPT !.op = [name |-> "execute", frame |-> frame]] IN
  IF ~conn THEN Raise([e EXCEPT !.x_result = "FinsConnectionError"],
                      "FinsConnectionError")
  ELSE [e EXCEPT !.pc = "send"]

\* one pass of the loop, then the return or the raise that ends the call
execute_pass(e, out) ==
  LET e1 == execute_fins_command_frame(e, e.op.frame, out) IN
  CASE e1.x_result = "none" -> e1
    [] e1.x_result = "bytes" -> Return(e1, "bytes", out, <<>>)
    [] OTHER -> Raise(e1, e1.x_result)

ExecCall ==
  /\ EngineFree
  /\ \E frame \in ExecFrames : eng' = execute_enter(connected, frame)
  /\ UNCHANGED <<connected, notEngine>>

ExecAttempt ==
  /\ eng.pc = "send"
  /\ \E out \in Outcomes : eng' = execute_pass(eng, out)
  /\ UNCHANGED <<connected, notEngine>>

ExecNext ==
  \/ EngRelease
  \/ EngConnect
  \/ EngDisconnect
  \/ ExecCall
  \/ ExecAttempt
  \/ EngBackoff

SpecExecute == EngInit /\ [][ExecNext]_vars

\* the event loop resumes a coroutine that is ready: a pass of the loop is
\* taken, and the sleep between passes ends
SpecExecuteFair ==
  EngInit /\ [][ExecNext]_vars /\ WF_vars(ExecAttempt) /\ WF_vars(EngBackoff)

(***************************************************************************)
(* The decoding of multiple_read applied to well-formed response texts     *)
(***************************************************************************)
MaxItems == 2

DecodeAddresses == {A_D100, A_w0, A_D0}

DecodeTypes == {"INT16", "UINT16", "RAW"}

DecodeValues == {4660, 1, 33298}

\* one record of the response: area code byte, then the value bytes
RecordOf(item, value) ==
  <<WordAreaCode(parse(item.address, 0).memory_area), value \div 256, value % 256>>

RECURSIVE RecordsText(_, _)
RecordsText(items, values) ==
  IF Len(items) = 0 THEN <<>>
  ELSE RecordOf(Head(items), Head(values)) \o RecordsText(Tail(items), Tail(values))

DecodeInputs ==
  UNION {{[items |-> [i \in 1..n |-> [address |-> as[i], data_type |-> ts[i]]],
           values |-> vs] :
            as \in {f \in [1..n -> DecodeAddresses] : \A i, j \in 1..n : i # j => f[i] # f[j]},
            ts \in [1..n -> DecodeTypes],
            vs \in [1..n -> DecodeValues]} : n \in 1..MaxItems}

DecInit ==
  /\ \E inp \in DecodeInputs :
       dec = [items |-> inp.items, values |-> inp.values,
              text |-> RecordsText(inp.items, inp.values), done |-> FALSE,
              out |-> NoResult]
  /\ eng = EngineIdle /\ connected = TRUE /\ PollerOff

DecApply ==
  /\ ~dec.done
  /\ dec' = [dec EXCEPT !.done = TRUE,
                        !.out = multiple_read_decode(dec.items, dec.text)]
  /\ UNCHANGED notDecode

DecNext == DecApply

SpecDecode == DecInit /\ [][DecNext]_vars

(***************************************************************************)
(* PLCTask: construction                                                   *)
(***************************************************************************)
\* components.data_type_mapping.DATA_TYPE_MAPPING, the table main.py imports
COMPONENTS_DATA_TYPE_MAPPING ==
  [t \in (DOMAIN DATA_TYPE_MAPPING) \cup {"RAW"} |->
     IF t = "RAW" THEN 1 ELSE DATA_TYPE_MAPPING[t]]

\* str.upper() on the data type names of the configuration
upper(t) ==
  CASE t = "int16" -> "INT16" [] t = "int32" -> "INT32" [] t = "bool" -> "BOOL"
    [] t = "raw" -> "RAW" [] t = "foo" -> "FOO" [] OTHER -> t

\* no mapping is taken for the heartbeat
is_heartbeat_Never(mapping) == FALSE

\* plc_address == "HEARTBEAT": skipped by _initialize_address_groups
is_heartbeat(mapping) == mapping.plc_reg_add = HEARTBEAT

\* the entry _initialize_address_groups makes of mapping k
GroupItem(mappings, k) ==
  LET data_type == upper(mappings[k].data_type) IN
  [plc_reg |-> mappings[k].plc_reg_add, opcua_reg |-> k,
   data_type |-> IF data_type = "BOOL" THEN "INT16" ELSE data_type]

RECURSIVE ItemsFrom(_, _, _)
ItemsFrom(mappings, k, one_word) ==
  IF k > Len(mappings) THEN <<>>
  ELSE
    LET it == GroupItem(mappings, k)
        is_one == /\ it.data_type \in DOMAIN COMPONENTS_DATA_TYPE_MAPPING
                  /\ COMPONENTS_DATA_TYPE_MAPPING[it.data_type] = 1
        rest == ItemsFrom(mappings, k + 1, one_word)
    IN IF is_heartbeat(mappings[k]) THEN rest
       ELSE IF is_one = one_word THEN <<it>> \o rest
       ELSE rest

\* the slice one entry longer
batch_OneMore(one_word_mappings, i) ==
  Slice(one_word_mappings, i, i + batch_size + 1)

\* batch = one_word_mappings[i:i + batch_size]
batch(one_word_mappings, i) == Slice(one_word_mappings, i, i + batch_size)

\* _initialize_address_groups: one-word entries in groups of batch_size,
\* the others (multi-word or unknown type) read one by one
initialize_address_groups(mappings) ==
  LET one_word == ItemsFrom(mappings, 1, TRUE)
      n == Len(one_word)
      count == (n + batch_size - 1) \div batch_size
  IN [groups |-> [g \in 1..count |-> batch(one_word, (g - 1) * batch_size)],
      singles |-> ItemsFrom(mappings, 1, FALSE)]

\* PLCTask.__init__
PLCTask_init(mappings, csv_enabled) ==
  LET g == initialize_address_groups(mappings) IN
  [csv_enabled |-> csv_enabled, mappings |-> mappings,
   groups |-> g.groups, singles |-> g.singles,
   failed_to_read |-> 0, failed_to_push |-> 0, stopped |-> FALSE,
   csv_file |-> IF csv_enabled THEN "open" ELSE "none",
   opcua_connected |-> FALSE, background_tasks |-> {},
   samples |-> <<>>, csv_rows |-> <<>>, published |-> {}]

(***************************************************************************)
(* PLCTask.__init__ on its own: the read plan of a list of mappings        *)
(***************************************************************************)
MaxMappings == 3

MaxRun == 41

MappingKinds ==
  {[plc_reg_add |-> HEARTBEAT, data_type |-> "bool"],
   [plc_reg_add |-> <<"D", "1", "0", "0">>, data_type |-> "int16"],
   [plc_reg_add |-> <<"W", "0", ".", "0", "1">>, data_type |-> "bool"],
   [plc_reg_add |-> <<"D", "0">>, data_type |-> "FLOAT"],
   [plc_reg_add |-> <<"D", "0">>, data_type |-> "foo"]}

\* 25 INT16 mappings, one FLOAT mapping and the heartbeat
ExampleMappings ==
  [k \in 1..25 |-> [plc_reg_add |-> <<"D", "1", "0", "0">>, data_type |-> "int16"]]
    \o <<[plc_reg_add |-> <<"D", "0">>, data_type |-> "FLOAT"],
         [plc_reg_add |-> HEARTBEAT, data_type |-> "bool"]>>

\* short lists of every kind of mapping, runs of one-word mappings that
\* fill several groups, alone or around a short list, and the example
PlanInputs ==
  LET short == UNION {[1..n -> MappingKinds] : n \in 0..MaxMappings}
      runs == {[k \in 1..n |-> [plc_reg_add |-> <<"D", "1", "0", "0">>,
                                data_type |-> "int16"]] : n \in 0..MaxRun}
      pairs == UNION {[1..n -> MappingKinds] : n \in 0..2}
  IN short \cup {ExampleMappings} \cup {a \o r : a \in pairs, r \in runs}

PlanInit ==
  /\ \E mappings \in PlanInputs : plc = [PlcOff EXCEPT !.mappings = mappings]
  /\ run = RunOff /\ loop = LoopOff /\ queue = QueueOff /\ qp = "off" /\ tasks = <<>>
  /\ eng = EngineIdle /\ connected = FALSE /\ dec = DecIdle /\ PollersOff

\* PLCTask(plc, queue, reload, csv_enabled) in create_tasks
PlanBuild ==
  /\ run.pc = "off"
  /\ plc' = PLCTask_init(plc.mappings, FALSE)
  /\ run' = [RunOff EXCEPT !.pc = "start"]
  /\ UNCHANGED <<eng, connected, loop, queue, qp, tasks, notPoller>>

PlanNext == PlanBuild

SpecPlan == PlanInit /\ [][PlanNext]_vars

(***************************************************************************)
(* PLCTask: one read of a cycle and the end of a cycle                     *)
(***************************************************************************)
put(q, message) == [items |-> Append(q.items, message), puts |-> Append(q.puts, message)]

\* the comparison against self.threshold taken at the threshold itself
TooManyErrors_AtThreshold(n) == n >= threshold

\* self.failed_to_read > self.threshold
TooManyErrors(n) == n > threshold

\* _single_read_fallback once fins.read has come back as e
single_read_fallback(p, q, values, e, item) ==
  IF e.pc = "raised"
    THEN LET n == p.failed_to_read + 1 IN
         IF TooManyErrors(n)
           THEN [plc |-> [p EXCEPT !.failed_to_read = n, !.stopped = TRUE],
                 queue |-> put(q, Message(TooManyErrorsText)),
                 values |-> values, read_success |-> FALSE]
           ELSE [plc |-> [p EXCEPT !.failed_to_read = n], queue |-> q,
                 values |-> [values EXCEPT ![item.opcua_reg] = Null],
                 read_success |-> FALSE]
  ELSE IF e.result.status = "success" /\ Len(e.result.data) > 0
    THEN [plc |-> p, queue |-> q,
          values |-> [values EXCEPT ![item.opcua_reg] = Val(e.result.data[1])],
          read_success |-> TRUE]
  ELSE [plc |-> p, queue |-> q,
        values |-> [values EXCEPT ![item.opcua_reg] = Null],
        read_success |-> FALSE]

\* the calls _perform_plc_update_cycle makes on fins, as they are made:
\* multiple_read for a group (failed: it did not come back with status
\* 'success'), read for the entry of a tag (group 0: single_read_addresses)
MultipleReadCall(group, failed) ==
  [op |-> "multiple_read", group |-> group, tag |-> 0, failed |-> failed]

ReadCall(group, tag) == [op |-> "read", group |-> group, tag |-> tag, failed |-> FALSE]

\* a group whose multiple read failed is passed over
after_failed_group_Skip(r) == [r EXCEPT !.gi = @ + 1]

\* the else branch and the except branch after multiple_read: for item in
\* group, _single_read_fallback
after_failed_group(r) == [r EXCEPT !.pc = "fallback", !.ii = 1]

\* plc_cycle_ok after a read where only the last read of the cycle counts
cycle_ok_Last(plc_cycle_ok, read_success) == read_success

\* if read_success: plc_cycle_ok = True
cycle_ok(plc_cycle_ok, read_success) == plc_cycle_ok \/ read_success

\* str(plc_cycle_ok) in a row
Bool(b) == [bool |-> b]

\* self.csv_header after its 'Timestamp': the OPC UA tag of every mapping
csv_header(mappings) == [k \in 1..Len(mappings) |-> k]

\* the row without a column for HEARTBEAT mappings
csv_row_NoHeartbeat(mappings, plc_values, plc_cycle_ok) ==
  LET keep == SelectSeq([k \in 1..Len(mappings) |-> k],
                        LAMBDA k : mappings[k].plc_reg_add # HEARTBEAT)
  IN [i \in 1..Len(keep) |->
        IF plc_values[keep[i]] = Unset THEN Null ELSE plc_values[keep[i]]]

\* row_data of _write_to_csv_async after its timestamp: one entry per
\* mapping, plc_values.get(opcua_tag, None) or the heartbeat, None as 'NaN'
csv_row(mappings, plc_values, plc_cycle_ok) ==
  [k \in 1..Len(mappings) |->
     IF mappings[k].plc_reg_add = HEARTBEAT THEN Bool(plc_cycle_ok)
     ELSE IF plc_values[k] = Unset THEN Null ELSE plc_values[k]]

\* one task per sink and a second CSV task for the same cycle
create_sink_tasks_TwoCsv(cycle) ==
  <<SinkTask("csv", cycle, 1), SinkTask("csv", cycle, 2), SinkTask("opcua", cycle, 1)>>

\* asyncio.create_task for _write_to_csv_async and _write_to_opcua_async
create_sink_tasks(cycle) ==
  <<SinkTask("csv", cycle, 1), SinkTask("opcua", cycle, 1)>>

\* run with the commented-out block of its loop in force: break out of the
\* loop right after the cycle once too many reads have failed
after_cycle_Break(p) == IF p.failed_to_read > threshold THEN "loop" ELSE "sleep"

\* run after _perform_plc_update_cycle has returned: await asyncio.sleep
after_cycle(p) == "sleep"

(***************************************************************************)
(* The event loop: a FIFO queue of ready tasks; a task runs from one await *)
(* that suspends it to the next                                            *)
(***************************************************************************)
Range(seq) == {seq[i] : i \in 1..Len(seq)}

InReady(t) == t \in Range(loop.ready)

\* the sink tasks created and not yet run
PendingSinks == {t \in Range(loop.ready) : t.kind \in {"csv", "opcua"}}

\* task.cancel(): nothing for a task that is done, else CancelledError is
\* thrown into the task at the await it is suspended at, on its next turn
cancel(l, t, done) ==
  IF done THEN l
  ELSE [l EXCEPT !.must_cancel = @ \cup {t},
                 !.ready = IF t \in Range(@) THEN @ ELSE Append(@, t)]

RemoveTask(list, t) == SelectSeq(list, LAMBDA x : x # t)

TaskDone(t) == IF t = PollerTask THEN run.pc = "ended" ELSE qp = "ended"

(***************************************************************************)
(* One poller on the event loop                                            *)
(***************************************************************************)
M(a, t) == [plc_reg_add |-> a, data_type |-> t]

Plans ==
  {<<M(A_D100, "int16"), M(A_D0, "INT32")>>,
   <<M(HEARTBEAT, "bool"), M(A_D100, "bool"), M(A_X100, "int16")>>,
   <<M(A_X100, "int16"), M(A_D0, "raw"), M(A_D70000, "INT32"), M(A_D100, "foo")>>,
   <<M(A_X100, "int16"), M(A_D0, "raw"), M(A_D100_16, "bool")>>,
   [k \in 1..(batch_size + 1) |->
      IF k <= batch_size THEN M(A_X100, "int16") ELSE M(A_D100, "int16")]
     \o <<M(A_D0, "INT32")>>,
   <<M(A_W0_01, "bool")>>}

CpuFrame ==
  [command |-> "CPU_UNIT_DATA_READ", memory_area |-> "", access |-> "",
   word_address |-> 0, bit |-> 0, count |-> 0]

PolInit ==
  /\ \E mappings \in Plans, csv_enabled \in BOOLEAN :
       plc = PLCTask_init(mappings, csv_enabled)
  /\ run = [RunOff EXCEPT !.pc = "start"]
  /\ loop = [LoopOff EXCEPT !.ready = <<PollerTask, QueueTask>>]
  /\ queue = QueueOff /\ qp = "start" /\ tasks = <<PollerTask, QueueTask>>
  /\ eng = EngineIdle /\ connected = FALSE /\ dec = DecIdle
  /\ PollersOff

Busy == loop.busy

Suspend == loop' = [loop EXCEPT !.busy = FALSE]

\* the list of the loop taken from its last entry to its first
CurrentList_Reversed ==
  LET list == IF run.pc = "fallback" THEN plc.groups[run.gi] ELSE plc.singles
  IN [i \in 1..Len(list) |-> list[Len(list) + 1 - i]]

\* for item in group / for item in self.single_read_addresses
CurrentList == IF run.pc = "fallback" THEN plc.groups[run.gi] ELSE plc.singles

\* the poller's turn comes: CancelledError if it was cancelled, else it
\* goes on after the await it was suspended at
RunPoller ==
  /\ ~Busy /\ loop.ready # <<>> /\ Head(loop.ready) = PollerTask
  /\ IF PollerTask \in loop.must_cancel
       THEN /\ run' = [run EXCEPT !.pc = "ended", !.exit = "cancelled"]
            /\ plc' = [plc EXCEPT !.background_tasks =
                                    IF run.pc = "gather" THEN {} ELSE @]
            /\ loop' = [loop EXCEPT !.ready = Tail(@),
                                    !.must_cancel = @ \ {PollerTask}]
            /\ UNCHANGED eng
       ELSE /\ run' = CASE run.pc = "sleep" -> [run EXCEPT !.pc = "loop"]
                        [] run.pc = "gather" -> [run EXCEPT !.pc = "dispatch"]
                        [] run.pc = "json" -> [run EXCEPT !.wait_time = @ + json_poll]
                        [] OTHER -> run
            /\ plc' = [plc EXCEPT !.background_tasks =
                                    IF run.pc = "gather" THEN {} ELSE @]
            /\ eng' = IF eng.pc = "backoff" THEN [eng EXCEPT !.pc = "send"] ELSE eng
            /\ loop' = [loop EXCEPT !.ready = Tail(@), !.busy = TRUE]
  /\ UNCHANGED <<connected, queue, qp, tasks, notPoller>>

\* a timer the poller sleeps on runs out
PollerTimer ==
  /\ ~Busy /\ run.pc # "ended" /\ ~InReady(PollerTask)
  /\ run.pc \in {"sleep", "json"} \/ eng.pc = "backoff"
  /\ loop' = [loop EXCEPT !.ready = Append(@, PollerTask)]
  /\ UNCHANGED <<eng, connected, plc, run, queue, qp, tasks, notPoller>>

\* asyncio.gather over background_tasks is done once they all are
GatherDone ==
  /\ ~Busy /\ run.pc = "gather" /\ ~InReady(PollerTask)
  /\ plc.background_tasks \cap PendingSinks = {}
  /\ loop' = [loop EXCEPT !.ready = Append(@, PollerTask)]
  /\ UNCHANGED <<eng, connected, plc, run, queue, qp, tasks, notPoller>>

\* run, the except branch of Step 1: message, CSV file closed and removed,
\* return
StartupFailed ==
  /\ queue' = put(queue, Message(FinsConnectionErrorText))
  /\ plc' = [plc EXCEPT !.csv_file = IF @ = "open" THEN "closed" ELSE @]
  /\ run' = [run EXCEPT !.pc = "ended", !.exit = "returned"]
  /\ eng' = EngineIdle
  /\ Suspend

\* run, Step 1: FinsUdpConnection, connect, start of cpu_unit_details_read
PollerConnect ==
  /\ Busy /\ run.pc = "start"
  /\ \E ok \in BOOLEAN :
       IF ok
         THEN /\ connected' = TRUE
              /\ eng' = execute_enter(TRUE, CpuFrame)
              /\ run' = [run EXCEPT !.pc = "cpu", !.socket_opened = TRUE]
              /\ UNCHANGED <<plc, loop, queue>>
         ELSE StartupFailed /\ UNCHANGED connected
  /\ UNCHANGED <<qp, tasks, notPoller>>

\* cpu_unit_details_read: a pass of execute_fins_command_frame, and the
\* test of the result in run
PollerCpuAttempt ==
  /\ Busy /\ run.pc = "cpu" /\ eng.pc = "send"
  /\ \E out \in Outcomes :
       LET e1 == execute_pass(eng, out) IN
       IF e1.pc = "backoff"
         THEN eng' = e1 /\ Suspend /\ UNCHANGED <<plc, run, queue>>
       ELSE IF e1.pc = "returned" /\ out = "ok"
         THEN /\ eng' = EngineIdle
              /\ run' = [run EXCEPT !.pc = "opcua"]
              /\ UNCHANGED <<plc, loop, queue>>
       ELSE StartupFailed
  /\ UNCHANGED <<connected, qp, tasks, notPoller>>

\* run before its loop: without OPC UA the CSV file is the fallback store
ensure_csv_file(p) ==
  [p EXCEPT !.csv_file = IF ~p.opcua_connected /\ @ = "none" THEN "open" ELSE @]

\* run, Step 2: client.connect()
PollerOpcuaConnect ==
  /\ Busy /\ run.pc = "opcua"
  /\ \E ok \in BOOLEAN :
       IF ok
         THEN /\ plc' = [plc EXCEPT !.opcua_connected = TRUE]
              /\ run' = [run EXCEPT !.pc = "json", !.wait_time = 0]
         ELSE /\ plc' = ensure_csv_file([plc EXCEPT !.opcua_connected = FALSE])
              /\ run' = [run EXCEPT !.pc = "loop"]
  /\ UNCHANGED <<eng, connected, loop, queue, qp, tasks, notPoller>>

\* run, Step 3: the wait for the shared JSON file, then OpcuaAutoNodeMapper
PollerJson ==
  /\ Busy /\ run.pc = "json"
  /\ \E exists \in BOOLEAN, ok \in BOOLEAN :
       IF ~exists /\ run.wait_time < max_wait_time
         THEN Suspend /\ UNCHANGED <<plc, run>>
       ELSE IF exists /\ ok
         THEN /\ run' = [run EXCEPT !.pc = "loop", !.opcua_manager = TRUE]
              /\ UNCHANGED <<plc, loop>>
       ELSE /\ plc' = ensure_csv_file([plc EXCEPT !.opcua_connected = FALSE])
            /\ run' = [run EXCEPT !.pc = "loop"]
            /\ UNCHANGED loop
  /\ UNCHANGED <<eng, connected, queue, qp, tasks, notPoller>>

\* run: the loop test found the stop event set; Step 5, fins.disconnect()
\* and the close of the CSV file
PollerStop ==
  /\ Busy /\ run.pc = "loop" /\ plc.stopped
  /\ connected' = FALSE
  /\ plc' = [plc EXCEPT !.csv_file = IF @ = "open" THEN "closed" ELSE @]
  /\ run' = [run EXCEPT !.pc = "ended", !.exit = "returned"]
  /\ Suspend
  /\ UNCHANGED <<eng, queue, qp, tasks, notPoller>>

\* run: the loop test passed; _perform_plc_update_cycle begins
PollerCycle ==
  /\ Busy /\ run.pc = "loop" /\ ~plc.stopped
  /\ run.cycle < MaxCycles
  /\ run' = [run EXCEPT !.pc = "group", !.cycle = @ + 1, !.gi = 1, !.ii = 1,
                        !.plc_values = [k \in 1..Len(plc.mappings) |-> Unset],
                        !.plc_cycle_ok = FALSE, !.calls = <<>>, !.succeeded = {}]
  /\ UNCHANGED <<eng, connected, plc, loop, queue, qp, tasks, notPoller>>

\* _perform_plc_update_cycle: fins.multiple_read for the next group; a
\* result that is not a success, or an exception, sends the group to
\* _single_read_fallback
PollerGroup ==
  /\ Busy /\ run.pc = "group"
  /\ IF run.gi > Len(plc.groups)
       THEN run' = [run EXCEPT !.pc = "single", !.ii = 1]
       ELSE
         LET group == plc.groups[run.gi]
             r == multiple_read(connected,
                                [i \in 1..Len(group) |->
                                   [address |-> group[i].plc_reg,
                                    data_type |-> group[i].data_type]])
             ok == r.pc = "returned" /\ r.result.status = "success"
             r1 == [run EXCEPT !.calls = Append(@, MultipleReadCall(run.gi, ~ok))]
         IN IF ok
              THEN run' = [r1 EXCEPT
                             !.gi = @ + 1, !.plc_cycle_ok = TRUE,
                             !.succeeded = @ \cup {group[i].opcua_reg : i \in 1..Len(group)},
                             !.plc_values =
                                [k \in 1..Len(plc.mappings) |->
                                   IF \E i \in 1..Len(group) : group[i].opcua_reg = k
                                     THEN Val(r.result.data[CHOOSE i \in 1..Len(group) :
                                                              group[i].opcua_reg = k])
                                     ELSE @[k]]]
              ELSE run' = after_failed_group(r1)
  /\ UNCHANGED <<eng, connected, plc, loop, queue, qp, tasks, notPoller>>

\* _single_read_fallback: fins.read is called for the next entry of the
\* group or of single_read_addresses
PollerRead ==
  /\ Busy /\ run.pc \in {"fallback", "single"} /\ eng.pc = "idle"
  /\ IF run.ii > Len(CurrentList)
       THEN /\ run' = IF run.pc = "fallback"
                        THEN [run EXCEPT !.pc = "group", !.gi = @ + 1]
                        ELSE [run EXCEPT !.pc = "write"]
            /\ UNCHANGED eng
       ELSE /\ eng' = read(connected, CurrentList[run.ii].plc_reg,
                           CurrentList[run.ii].data_type)
            /\ run' = [run EXCEPT !.calls =
                         Append(@, ReadCall(IF run.pc = "fallback" THEN run.gi ELSE 0,
                                            CurrentList[run.ii].opcua_reg))]
  /\ UNCHANGED <<connected, plc, loop, queue, qp, tasks, notPoller>>

\* _read_chunk inside that read; the sleep between two passes suspends
\* the poller
PollerReadAttempt ==
  /\ Busy /\ run.pc \in {"fallback", "single"} /\ eng.pc = "send"
  /\ \E out \in Outcomes : eng' = read_chunk(eng, connected, out)
  /\ loop' = [loop EXCEPT !.busy = (eng'.pc # "backoff")]
  /\ UNCHANGED <<connected, plc, run, queue, qp, tasks, notPoller>>

\* _single_read_fallback from the return of fins.read to its own return
PollerReadDone ==
  /\ Busy /\ run.pc \in {"fallback", "single"} /\ eng.pc \in {"returned", "raised"}
  /\ LET r == single_read_fallback(plc, queue, run.plc_values, eng,
                                   CurrentList[run.ii])
     IN /\ plc' = r.plc
        /\ queue' = r.queue
        /\ run' = [run EXCEPT !.plc_values = r.values,
                              !.plc_cycle_ok = cycle_ok(@, r.read_success),
                              !.succeeded =
                                 IF eng.pc = "returned" /\ eng.result.status = "success"
                                   THEN @ \cup {CurrentList[run.ii].opcua_reg} ELSE @,
                              !.ii = @ + 1]
  /\ eng' = EngineIdle
  /\ UNCHANGED <<connected, loop, qp, tasks, notPoller>>

\* _perform_plc_update_cycle: if self.background_tasks, await gather
PollerWrite ==
  /\ Busy /\ run.pc = "write"
  /\ IF plc.background_tasks # {}
       THEN run' = [run EXCEPT !.pc = "gather"] /\ Suspend
       ELSE run' = [run EXCEPT !.pc = "dispatch"] /\ UNCHANGED loop
  /\ UNCHANGED <<eng, connected, plc, queue, qp, tasks, notPoller>>

\* _perform_plc_update_cycle: the two sink tasks are created and kept in
\* background_tasks; back in run, the sleep of the loop
PollerDispatch ==
  /\ Busy /\ run.pc = "dispatch"
  /\ LET sinks == create_sink_tasks(run.cycle) IN
       /\ plc' = [plc EXCEPT !.background_tasks = @ \cup Range(sinks),
                              !.samples = Append(@, [plc_values |-> run.plc_values,
                                                     plc_cycle_ok |-> run.plc_cycle_ok,
                                                     succeeded |-> run.succeeded])]
       /\ run' = [run EXCEPT !.pc = after_cycle(plc)]
       /\ loop' = [loop EXCEPT !.ready = @ \o sinks,
                               !.busy = (after_cycle(plc) # "sleep")]
  /\ UNCHANGED <<eng, connected, queue, qp, tasks, notPoller>>

\* _write_to_csv_async with the arguments its task was created with: the
\* row is written when CSV is enabled or OPC UA is down, to a file opened
\* on demand
RunCsvWrite ==
  /\ ~Busy /\ loop.ready # <<>> /\ Head(loop.ready).kind = "csv"
  /\ LET sample == plc.samples[Head(loop.ready).cycle]
         row_data == csv_row(plc.mappings, sample.plc_values, sample.plc_cycle_ok)
     IN plc' = IF plc.csv_enabled \/ ~plc.opcua_connected
                 THEN [plc EXCEPT !.csv_file = IF @ = "none" THEN "open" ELSE @,
                                  !.csv_rows = Append(@, [timestamp |-> Head(loop.ready).cycle,
                                                          columns |-> row_data])]
                 ELSE plc
  /\ loop' = [loop EXCEPT !.ready = Tail(@)]
  /\ UNCHANGED <<eng, connected, run, queue, qp, tasks, notPoller>>

\* _write_to_opcua_async: nothing without a connection; a failed write
\* counts in failed_to_push and marks OPC UA as down; published keeps the
\* cycles whose values were all pushed
RunOpcuaWrite ==
  /\ ~Busy /\ loop.ready # <<>> /\ Head(loop.ready).kind = "opcua"
  /\ \E ok \in BOOLEAN :
       plc' = IF ~(plc.opcua_connected /\ run.opcua_manager) THEN plc
              ELSE IF ok
                THEN [plc EXCEPT !.published = @ \cup {Head(loop.ready).cycle}]
                ELSE [plc EXCEPT !.failed_to_push = @ + 1, !.opcua_connected = FALSE]
  /\ loop' = [loop EXCEPT !.ready = Tail(@)]
  /\ UNCHANGED <<eng, connected, run, queue, qp, tasks, notPoller>>

\* queue.get() has a message for the waiting queue processor
QueueWake ==
  /\ ~Busy /\ qp = "waiting" /\ queue.items # <<>> /\ ~InReady(QueueTask)
  /\ loop' = [loop EXCEPT !.ready = Append(@, QueueTask)]
  /\ UNCHANGED <<eng, connected, plc, run, queue, qp, tasks, notPoller>>

\* the first task of the list whose name occurs in the message, if any
MatchingTask(list, message) ==
  MatchingName([i \in 1..Len(list) |-> get_name(list[i])], message)

\* process_queue_async, one turn: CancelledError ends it; else a message is
\* taken, the first task named in it is cancelled and dropped from the
\* list, and the next get either finds a message at once or waits
RunQueueProcessor ==
  /\ ~Busy /\ loop.ready # <<>> /\ Head(loop.ready) = QueueTask
  /\ IF QueueTask \in loop.must_cancel
       THEN /\ qp' = "ended"
            /\ loop' = [loop EXCEPT !.ready = Tail(@), !.must_cancel = @ \ {QueueTask}]
            /\ UNCHANGED <<queue, tasks>>
     ELSE IF qp = "start" \/ queue.items = <<>>
       THEN /\ qp' = "waiting"
            /\ loop' = [loop EXCEPT !.ready = Tail(@)]
            /\ UNCHANGED <<queue, tasks>>
     ELSE
       LET message == Head(queue.items)
           i == MatchingTask(tasks, message)
           l1 == IF i = 0 THEN loop ELSE cancel(loop, tasks[i], TaskDone(tasks[i]))
       IN /\ queue' = [queue EXCEPT !.items = Tail(@)]
          /\ tasks' = IF i = 0 THEN tasks ELSE RemoveTask(tasks, tasks[i])
          /\ qp' = "waiting"
          /\ \E again \in BOOLEAN :
               loop' = IF again /\ Len(queue.items) > 1
                         THEN l1
                         ELSE [l1 EXCEPT !.ready = Tail(@)]
  /\ UNCHANGED <<eng, connected, plc, run, notPoller>>

\* signal_handler of main: every task of the list is cancelled
SignalHandler ==
  /\ ~Busy /\ ~loop.signalled
  /\ LET l1 == IF PollerTask \in Range(tasks)
                 THEN cancel(loop, PollerTask, TaskDone(PollerTask)) ELSE loop
         l2 == IF QueueTask \in Range(tasks)
                 THEN cancel(l1, QueueTask, TaskDone(QueueTask)) ELSE l1
     IN loop' = [l2 EXCEPT !.signalled = TRUE]
  /\ UNCHANGED <<eng, connected, plc, run, queue, qp, tasks, notPoller>>

PolNext ==
  \/ RunPoller
  \/ PollerTimer
  \/ GatherDone
  \/ PollerConnect
  \/ PollerCpuAttempt
  \/ PollerOpcuaConnect
  \/ PollerJson
  \/ PollerStop
  \/ PollerCycle
  \/ PollerGroup
  \/ PollerRead
  \/ PollerReadAttempt
  \/ PollerReadDone
  \/ PollerWrite
  \/ PollerDispatch
  \/ RunCsvWrite
  \/ RunOpcuaWrite
  \/ QueueWake
  \/ RunQueueProcessor
  \/ SignalHandler

SpecPoller == PolInit /\ [][PolNext]_vars

(***************************************************************************)
(* create_tasks: one PLCTask.run per configured PLC, side by side on the   *)
(* event loop.  A step is the code a task runs between two awaits that     *)
(* suspend it; which of the ready tasks runs next is left open, and so is  *)
(* the moment a task is cancelled (by the queue processor or by a signal). *)
(***************************************************************************)
PollerIds == {1, 2}

PollerPlans ==
  {<<M(A_D100, "int16")>>,
   <<M(A_X100, "int16"), M(A_D0, "raw"), M(A_D100, "INT32")>>}

notPollers == <<eng, connected, dec, plc, run, loop, queue, qp, tasks, sup, udp, call>>

RECURSIVE Flatten(_)
Flatten(groups) ==
  IF Len(groups) = 0 THEN <<>> ELSE Head(groups) \o Flatten(Tail(groups))

\* the entries _perform_plc_update_cycle hands to _single_read_fallback in
\* one cycle, in its order: the entries of every group whose multiple_read
\* did not succeed, then single_read_addresses
cycle_reads(p) ==
  LET failed(group) ==
        LET r == multiple_read(TRUE, [i \in 1..Len(group) |->
                                        [address |-> group[i].plc_reg,
                                         data_type |-> group[i].data_type]])
        IN ~(r.pc = "returned" /\ r.result.status = "success")
  IN Flatten([g \in 1..Len(p.groups) |->
                IF failed(p.groups[g]) THEN p.groups[g] ELSE <<>>]) \o p.singles

\* fins.read gets as far as execute_fins_command_frame for this entry
reaches_socket(item) == read(TRUE, item.plc_reg, item.data_type).pc = "send"

\* a PLCTask whose run has not started yet
NewPoller(mappings) ==
  LET p == PLCTask_init(mappings, FALSE)
      reads == cycle_reads(p)
  IN [pc |-> "start", fins |-> 0,
      reads |-> [i \in 1..Len(reads) |-> reaches_socket(reads[i])],
      ri |-> 0, attempt |-> 0, waiting |-> FALSE, request |-> 0, cycle |-> 0,
      failed_to_read |-> 0, stopped |-> FALSE, sinks |-> 0]

NoRequest == [poller |-> 0, request |-> 0]

\* socket.socket(AF_INET, SOCK_DGRAM) in connect
NewSocket == [users |-> {}, outstanding |-> {}, sent |-> 0, last |-> NoRequest]

\* one connection object, made once and handed to every PLCTask
FinsUdpConnection_Shared(socks) == 1

\* run: fins = FinsUdpConnection(self.plc_ip), a local of run; its connect
\* makes a socket no other connection holds
FinsUdpConnection(socks) == Len(socks) + 1

\* self.socket.sendto(fins_command_frame, self.addr) for request r
sendto(socks, s, r) ==
  [socks EXCEPT ![s] = [users |-> @.users \cup {r.poller},
                        outstanding |-> @.outstanding \cup {r},
                        sent |-> @.sent + 1, last |-> r]]

\* execute_fins_command_frame is left: by return, by raise, or because the
\* task was cancelled in its sleep
leave(socks, s, r) == [socks EXCEPT ![s].outstanding = @ \ {r}]

PollersInit ==
  /\ pollers \in [PollerIds -> {NewPoller(m) : m \in PollerPlans}]
  /\ sockets = <<>> /\ OthersOff
  /\ eng = EngineIdle /\ connected = FALSE /\ dec = DecIdle
  /\ plc = PlcOff /\ run = RunOff /\ loop = LoopOff
  /\ queue = QueueOff /\ qp = "off" /\ tasks = <<>>

\* run, Step 1 up to the call of cpu_unit_details_read
PollersConnect(p) ==
  /\ pollers[p].pc = "start"
  /\ \E ok \in BOOLEAN :
       IF ok
         THEN LET s == FinsUdpConnection(sockets) IN
              /\ sockets' = IF s > Len(sockets) THEN Append(sockets, NewSocket)
                            ELSE sockets
              /\ pollers' = [pollers EXCEPT ![p] =
                               [@ EXCEPT !.pc = "cpu", !.fins = s, !.attempt = 0,
                                         !.request = 1]]
         ELSE /\ pollers' = [pollers EXCEPT ![p].pc = "ended"]
              /\ UNCHANGED sockets
  /\ UNCHANGED notPollers

\* one pass of execute_fins_command_frame, for cpu_unit_details_read or
\* for the read of the current entry, and what its caller does at its end
PollersExecute(p) ==
  LET q == pollers[p]
      r == [poller |-> p, request |-> q.request]
  IN
  /\ q.pc \in {"cpu", "read"} /\ ~q.waiting
  /\ q.pc = "read" => q.ri <= Len(q.reads) /\ q.reads[q.ri]
  /\ \E out \in Outcomes :
       LET res == AttemptResult(q.attempt, out)
           s1 == sendto(sockets, q.fins, r)
       IN IF res = "retry"
            THEN /\ sockets' = s1
                 /\ pollers' = [pollers EXCEPT ![p] =
                                  [@ EXCEPT !.attempt = @ + 1, !.waiting = TRUE]]
            ELSE /\ sockets' = leave(s1, q.fins, r)
                 /\ pollers' = [pollers EXCEPT ![p] =
                      IF q.pc = "cpu"
                        THEN [@ EXCEPT !.pc = IF out = "ok" THEN "setup" ELSE "ended",
                                       !.attempt = 0, !.request = @ + 1]
                        ELSE [@ EXCEPT !.ri = @ + 1, !.attempt = 0,
                                       !.request = @ + 1]]
  /\ UNCHANGED notPollers

\* the sleep between two passes is over
PollersResume(p) ==
  /\ pollers[p].waiting
  /\ pollers' = [pollers EXCEPT ![p].waiting = FALSE]
  /\ UNCHANGED <<sockets, notPollers>>

\* run, Steps 2 and 3: OPC UA client and node mapper, no FINS traffic
PollersSetup(p) ==
  /\ pollers[p].pc = "setup"
  /\ pollers' = [pollers EXCEPT ![p].pc = "loop"]
  /\ UNCHANGED <<sockets, notPollers>>

\* run: the test of its loop, at first and after every sleep; Step 5 when
\* the stop event is set
PollersLoop(p) ==
  /\ pollers[p].pc \in {"loop", "sleep"}
  /\ IF pollers[p].stopped
       THEN pollers' = [pollers EXCEPT ![p].pc = "ended"]
       ELSE /\ pollers[p].cycle < MaxCycles
            /\ pollers' = [pollers EXCEPT ![p] =
                             [@ EXCEPT !.pc = "read", !.cycle = @ + 1, !.ri = 1]]
  /\ UNCHANGED <<sockets, notPollers>>

\* _single_read_fallback for an entry whose read raises before any frame
\* is sent
PollersRaise(p) ==
  LET q == pollers[p] IN
  /\ q.pc = "read" /\ q.ri <= Len(q.reads) /\ ~q.reads[q.ri]
  /\ pollers' = [pollers EXCEPT ![p] =
                   [@ EXCEPT !.failed_to_read = @ + 1, !.ri = @ + 1,
                             !.stopped = @ \/ TooManyErrors(q.failed_to_read + 1)]]
  /\ UNCHANGED <<sockets, notPollers>>

\* _perform_plc_update_cycle after the reads: the sink tasks of the cycle
\* before are awaited, then two new ones are created; run goes to sleep
PollersWrite(p) ==
  LET q == pollers[p] IN
  /\ \/ q.pc = "read" /\ q.ri > Len(q.reads)
     \/ q.pc = "gather" /\ q.sinks = 0
  /\ pollers' = [pollers EXCEPT ![p] =
                   IF q.sinks > 0 THEN [@ EXCEPT !.pc = "gather"]
                   ELSE [@ EXCEPT !.pc = "sleep",
                                  !.sinks = Len(create_sink_tasks(q.cycle))]]
  /\ UNCHANGED <<sockets, notPollers>>

\* _write_to_csv_async or _write_to_opcua_async of poller p runs: neither
\* touches the connection
PollersSink(p) ==
  /\ pollers[p].sinks > 0
  /\ pollers' = [pollers EXCEPT ![p].sinks = @ - 1]
  /\ UNCHANGED <<sockets, notPollers>>

\* task.cancel(): CancelledError at the await the task is suspended at
PollersCancel(p) ==
  LET q == pollers[p] IN
  /\ q.waiting \/ q.pc \in {"start", "setup", "gather", "sleep"}
  /\ pollers' = [pollers EXCEPT ![p] = [@ EXCEPT !.pc = "ended", !.waiting = FALSE]]
  /\ sockets' = IF q.waiting
                  THEN leave(sockets, q.fins, [poller |-> p, request |-> q.request])
                  ELSE sockets
  /\ UNCHANGED notPollers

PollersNext ==
  \E p \in PollerIds :
    \/ PollersConnect(p)
    \/ PollersExecute(p)
    \/ PollersResume(p)
    \/ PollersSetup(p)
    \/ PollersLoop(p)
    \/ PollersRaise(p)
    \/ PollersWrite(p)
    \/ PollersSink(p)
    \/ PollersCancel(p)

SpecPollers == PollersInit /\ [][PollersNext]_vars

(***************************************************************************)
(* create_tasks and process_queue_async with several configured PLCs       *)
(***************************************************************************)
PLC10 == PLC1 \o <<"0">>

PLC2 == <<"P", "L", "C", "2">>

PlcNames == {PLC1, PLC10, PLC2}

queue_processor == <<"queue_processor">>

ReportTexts == {TooManyErrorsText, FinsConnectionErrorText}

MaxReports == 2

\* the configured PLCs in the order of plc_details['plcs'], names distinct
NameLists ==
  {l \in UNION {[1..n -> PlcNames] : n \in 1..Cardinality(PlcNames)} :
     \A i, j \in 1..Len(l) : l[i] = l[j] => i = j}

\* create_tasks: one task per PLC named after it, then the queue processor
create_tasks(names) ==
  [names |-> names, tasks |-> Append(names, queue_processor), items |-> <<>>,
   reported |-> [n \in Range(names) |-> 0], cancelled |-> {}]

\* one message handled by process_queue_async: the first task of the list
\* whose name occurs in the message is cancelled and removed from the list
process_message(s) ==
  LET item == Head(s.items)
      i == MatchingName(s.tasks, item.message)
  IN IF i = 0 THEN [s EXCEPT !.items = Tail(@)]
     ELSE [s EXCEPT !.items = Tail(@),
                    !.tasks = RemoveTask(@, s.tasks[i]),
                    !.cancelled = @ \cup {[from |-> item.from, task |-> s.tasks[i]]}]

SupInit ==
  /\ \E names \in NameLists : sup = create_tasks(names)
  /\ udp = UdpOff /\ call = CallOff
  /\ eng = EngineIdle /\ connected = FALSE /\ dec = DecIdle
  /\ plc = PlcOff /\ run = RunOff /\ loop = LoopOff
  /\ queue = QueueOff /\ qp = "off" /\ tasks = <<>>
  /\ pollers = <<>> /\ sockets = <<>>

notSup ==
  <<eng, connected, dec, plc, run, loop, queue, qp, tasks, pollers, sockets, udp, call>>

\* await self.queue.put(f"{self.name}-...") of the poller of PLC n
SupReport(n) ==
  /\ n \in Range(sup.names) /\ sup.reported[n] < MaxReports
  /\ \E text \in ReportTexts :
       sup' = [sup EXCEPT !.items = Append(@, [from |-> n, message |-> MessageOf(n, text)]),
                          !.reported[n] = @ + 1]
  /\ UNCHANGED notSup

\* queue.get() returns a message to process_queue_async
SupProcess ==
  /\ sup.items # <<>>
  /\ sup' = process_message(sup)
  /\ UNCHANGED notSup

SupNext ==
  \/ \E n \in PlcNames : SupReport(n)
  \/ SupProcess

SpecSupervisor == SupInit /\ [][SupNext]_vars

(***************************************************************************)
(* FinsUdpConnection as a transport: socket, connected, last_activity      *)
(***************************************************************************)
MaxTime == 8

\* __init__: no socket yet. now stands for datetime.now(); terminal is the
\* history of the socket: a request on it has used up its retries; last is
\* what the last step did
UdpNew ==
  [on |-> TRUE, socket |-> FALSE, connected |-> FALSE, last_activity |-> 0, now |-> 0,
   pc |-> "idle", attempt |-> 0, terminal |-> FALSE, last |-> "none"]

\* connect: a new socket, or socket.error while it is made
udp_connect(u, ok) ==
  IF ok THEN [u EXCEPT !.socket = TRUE, !.connected = TRUE, !.last_activity = u.now,
                       !.terminal = FALSE, !.last = "connect"]
  ELSE [u EXCEPT !.socket = FALSE, !.connected = FALSE, !.last = "connect failed"]

\* disconnect: nothing without a socket
udp_disconnect(u) ==
  IF u.socket
    THEN [u EXCEPT !.socket = FALSE, !.connected = FALSE, !.last_activity = u.now,
                   !.last = "disconnect"]
  ELSE [u EXCEPT !.last = "disconnect"]

\* execute_fins_command_frame up to its loop
udp_execute(u) ==
  IF ~u.connected \/ ~u.socket THEN [u EXCEPT !.last = "FinsConnectionError"]
  ELSE [u EXCEPT !.pc = "send", !.attempt = 0, !.last = "execute"]

\* one pass of the loop: recv returns, or the attempt fails
udp_attempt(u, out) ==
  LET res == AttemptResult(u.attempt, out) IN
  CASE res = "bytes" ->
         [u EXCEPT !.last_activity = u.now, !.pc = "idle", !.last = "received"]
    [] res = "retry" ->
         [u EXCEPT !.attempt = @ + 1, !.pc = "backoff", !.last = "failed"]
    [] OTHER ->
         [u EXCEPT !.pc = "idle", !.terminal = TRUE, !.last = res]

Tick(u) == [u EXCEPT !.now = @ + 1]

UdpInit ==
  /\ udp = UdpNew
  /\ sup = SupOff /\ call = CallOff
  /\ eng = EngineIdle /\ connected = FALSE /\ dec = DecIdle
  /\ plc = PlcOff /\ run = RunOff /\ loop = LoopOff
  /\ queue = QueueOff /\ qp = "off" /\ tasks = <<>>
  /\ pollers = <<>> /\ sockets = <<>>

notUdp ==
  <<eng, connected, dec, plc, run, loop, queue, qp, tasks, pollers, sockets, sup, call>>

UdpConnect ==
  /\ udp.pc = "idle" /\ udp.now < MaxTime
  /\ \E ok \in BOOLEAN : udp' = udp_connect(Tick(udp), ok)
  /\ UNCHANGED notUdp

UdpDisconnect ==
  /\ udp.pc = "idle" /\ udp.now < MaxTime
  /\ udp' = udp_disconnect(Tick(udp))
  /\ UNCHANGED notUdp

UdpExecute ==
  /\ udp.pc = "idle" /\ udp.now < MaxTime
  /\ udp' = udp_execute(Tick(udp))
  /\ UNCHANGED notUdp

UdpAttempt ==
  /\ udp.pc = "send"
  /\ \E out \in Outcomes : udp' = udp_attempt(Tick(udp), out)
  /\ UNCHANGED notUdp

\* await asyncio.sleep(0.1 * (attempt + 1)) is over
UdpBackoff ==
  /\ udp.pc = "backoff"
  /\ udp' = [Tick(udp) EXCEPT !.pc = "send", !.last = "slept"]
  /\ UNCHANGED notUdp

UdpNext ==
  \/ UdpConnect
  \/ UdpDisconnect
  \/ UdpExecute
  \/ UdpAttempt
  \/ UdpBackoff

SpecTransport == UdpInit /\ [][UdpNext]_vars

(***************************************************************************)
(* FinsAddressParser.parse on its own                                      *)
(***************************************************************************)
\* addresses are a prefix, a body and a suffix out of these
ParsePrefixes ==
  {<<>>, <<"D">>, <<"d">>, <<"W">>, <<"w">>, <<"H">>, <<"h">>, <<"A">>,
   <<"T">>, <<"t">>, <<"C">>, <<"c">>, <<"E">>, <<"e">>, <<"E", "M">>,
   <<"e", "m">>, <<"X">>, <<"x">>, <<"Z">>, <<"z">>}

ParseBodies ==
  {<<>>, <<"0">>, <<"5", "0">>, <<"1", "0", "0">>,
   <<"6", "5", "5", "3", "5">>, <<"A", "0", "5", "0">>,
   <<"a", "0", "5", "0">>, <<"F", "9", "9">>, <<"1", "2", "0", "0">>,
   <<"1", "0", "2", "0", "0">>, <<"1", "0", "0", "0">>,
   <<"1", "8", "1", "2", "3">>, <<"1", "9", "0", "0", "0">>,
   <<"G", "0", "0">>}

ParseSuffixes ==
  {<<>>, <<".", "0">>, <<".", "0", "1">>, <<".", "1", "5">>,
   <<".", "1", "6">>, <<".", "x">>, <<".">>, <<".", "1", ".", "2">>}

ParseAddresses ==
  {p \o b \o x : p \in ParsePrefixes, b \in ParseBodies, x \in ParseSuffixes}

ParseOffsets == {0, 1, 990, 0 - 1, 0 - 100, 65535}

ParseInit ==
  /\ \E a \in ParseAddresses, off \in ParseOffsets :
       call = [name |-> "parse", address |-> a, offset |-> off, done |-> FALSE,
               result |-> ParseError("none")]
  /\ sup = SupOff /\ udp = UdpOff
  /\ eng = EngineIdle /\ connected = FALSE /\ dec = DecIdle
  /\ plc = PlcOff /\ run = RunOff /\ loop = LoopOff
  /\ queue = QueueOff /\ qp = "off" /\ tasks = <<>>
  /\ pollers = <<>> /\ sockets = <<>>

notCall ==
  <<eng, connected, dec, plc, run, loop, queue, qp, tasks, pollers, sockets, sup, udp>>

ParseApply ==
  /\ call.name = "parse" /\ ~call.done
  /\ call' = [call EXCEPT !.done = TRUE, !.result = parse(call.address, call.offset)]
  /\ UNCHANGED notCall

ParseNext == ParseApply

SpecParse == ParseInit /\ [][ParseNext]_vars

(***************************************************************************)
(* PLCTask: the value of a bool mapping written to OPC UA                  *)
(***************************************************************************)
HexChars ==
  <<"0", "1", "2", "3", "4", "5", "6", "7", "8", "9", "A", "B", "C", "D", "E", "F">>

\* _hex_bytes_to_string of the two bytes of a word: data.hex().upper()
hex_bytes_to_string(word) ==
  <<HexChars[((word \div 4096) % 16) + 1], HexChars[((word \div 256) % 16) + 1],
    HexChars[((word \div 16) % 16) + 1], HexChars[(word % 16) + 1]>>

ishex(s) == Len(s) > 0 /\ \A i \in 1..Len(s) : \E k \in 1..16 : Upper(s[i]) = HexChars[k]

HexCharVal(c) == (CHOOSE k \in 1..16 : HexChars[k] = Upper(c)) - 1

\* int(s, 16) of a string of hex digits
RECURSIVE HexValue(_)
HexValue(s) ==
  IF Len(s) = 0 THEN 0
  ELSE 16 * HexValue(SubSeq(s, 1, Len(s) - 1)) + HexCharVal(s[Len(s)])

\* _get_bit_number_from_address: int(plc_address.split('.')[1]), 0 without a
\* '.' and 0 when that part is no number
get_bit_number_from_address(plc_address) ==
  IF Contains(plc_address, ".")
    THEN LET rest == Drop(plc_address, IndexOf(plc_address, "."))
             bit_part == IF Contains(rest, ".") THEN Take(rest, IndexOf(rest, ".") - 1)
                         ELSE rest
         IN IF IsInt(bit_part) THEN DecValue(bit_part) ELSE 0
  ELSE 0

\* the shift counted from the most significant bit
bit_of_MsbFirst(word_value, bit_number) == (word_value \div (2 ^ (15 - bit_number))) % 2

\* (word_value >> bit_number) & 1
bit_of(word_value, bit_number) == (word_value \div (2 ^ bit_number)) % 2

\* _extract_bit_value_from_hex
extract_bit_value_from_hex(hex_string, bit_number) ==
  IF Len(hex_string) < 4 THEN 0
  ELSE IF ~ishex(Take(hex_string, 4)) THEN 0
  ELSE bit_of(HexValue(Take(hex_string, 4)), bit_number)

\* _write_to_opcua_async for one mapping of type bool whose value is the
\* string plc_value: the bit for a '.N' address, else the value as it is
opcua_value(plc_address, plc_value) ==
  IF Contains(plc_address, ".")
    THEN [bit |-> extract_bit_value_from_hex(plc_value,
                                             get_bit_number_from_address(plc_address))]
  ELSE [raw |-> plc_value]

BoolWords == {0, 1, 2, 4, 128, 4096, 21845, 32768, 32896, 43690, 43981, 65535}

MaxBit == 15

\* '.N' written with two digits, as in 142.07
BitSuffixOf(n) == <<".", HexChars[(n \div 10) + 1], HexChars[(n % 10) + 1]>>

BoolAddresses ==
  {<<"1", "4", "2">>, A_D100}
    \cup {<<"1", "4", "2">> \o BitSuffixOf(n) : n \in 0..MaxBit}
    \cup {<<"W", "0", ".">> \o <<HexChars[n + 1]>> : n \in 0..9}

BoolInit ==
  /\ \E w \in BoolWords, a \in BoolAddresses, digits \in 0..4 :
       call = [name |-> "bool", word |-> w, plc_address |-> a,
               plc_value |-> Take(hex_bytes_to_string(w), digits),
               done |-> FALSE, bit_number |-> 0, opcua_value |-> [none |-> TRUE]]
  /\ sup = SupOff /\ udp = UdpOff
  /\ eng = EngineIdle /\ connected = FALSE /\ dec = DecIdle
  /\ plc = PlcOff /\ run = RunOff /\ loop = LoopOff
  /\ queue = QueueOff /\ qp = "off" /\ tasks = <<>>
  /\ pollers = <<>> /\ sockets = <<>>

BoolWrite ==
  /\ call.name = "bool" /\ ~call.done
  /\ call' = [call EXCEPT !.done = TRUE,
                          !.bit_number = get_bit_number_from_address(call.plc_address),
                          !.opcua_value = opcua_value(call.plc_address, call.plc_value)]
  /\ UNCHANGED notCall

BoolNext == BoolWrite

SpecBool == BoolInit /\ [][BoolNext]_vars

(***************************************************************************)
(* Datagrams of one socket: requests, responses in flight, receive buffer *)
(***************************************************************************)
MaxReads == 2

\* read(..., service_id: int = 0): no caller passes another value
service_id == 0

\* sid = service_id.to_bytes(1, 'big')
sid_of(id) == id % 256

DgAddresses == {A_D0, A_D100}

\* the PLC's answer to a request: the SID is echoed, the text is the
\* content of the address the request named
response_to(request) ==
  [read |-> request.read, attempt |-> request.attempt, sid |-> request.sid,
   address |-> request.address]

DgInit ==
  /\ call = [name |-> "datagram", pc |-> "idle", reads |-> 0, address |-> A_Empty,
             attempt |-> 0, flight |-> {}, buffer |-> <<>>, reports |-> <<>>]
  /\ sup = SupOff /\ udp = UdpOff
  /\ eng = EngineIdle /\ connected = FALSE /\ dec = DecIdle
  /\ plc = PlcOff /\ run = RunOff /\ loop = LoopOff
  /\ queue = QueueOff /\ qp = "off" /\ tasks = <<>>
  /\ pollers = <<>> /\ sockets = <<>>

\* fins.read(address, data_type) up to execute_fins_command_frame
DgRead(address) ==
  /\ call.name = "datagram" /\ call.pc = "idle" /\ call.reads < MaxReads
  /\ call' = [call EXCEPT !.pc = "send", !.reads = @ + 1, !.address = address,
                          !.attempt = 0]
  /\ UNCHANGED notCall

\* self.socket.sendto(fins_command_frame, self.addr); the PLC answers
\* and the answer is on its way
DgSend ==
  /\ call.name = "datagram" /\ call.pc = "send"
  /\ call' = [call EXCEPT
                !.pc = "recv",
                !.flight = @ \cup {response_to([read |-> call.reads,
                                                attempt |-> call.attempt,
                                                sid |-> sid_of(service_id),
                                                address |-> call.address])}]
  /\ UNCHANGED notCall

\* a datagram in flight reaches the socket's receive buffer, in any order
DgDeliver ==
  /\ call.name = "datagram"
  /\ \E r \in call.flight :
       call' = [call EXCEPT !.flight = @ \ {r}, !.buffer = Append(@, r)]
  /\ UNCHANGED notCall

\* response_data = self.socket.recv(4096); return response_data:
\* the first datagram of the buffer is the answer of this read
DgRecv ==
  /\ call.name = "datagram" /\ call.pc = "recv" /\ Len(call.buffer) > 0
  /\ call' = [call EXCEPT
                !.pc = "idle",
                !.buffer = Tail(@),
                !.reports = Append(@, [read |-> call.reads, address |-> call.address,
                                       from |-> Head(call.buffer)])]
  /\ UNCHANGED notCall

\* except socket.timeout: the next attempt after the sleep, or
\* FinsTimeoutError after MAX_RETRIES attempts
DgTimeout ==
  /\ call.name = "datagram" /\ call.pc = "recv" /\ Len(call.buffer) = 0
  /\ call' = IF call.attempt < MAX_RETRIES - 1
               THEN [call EXCEPT !.pc = "send", !.attempt = @ + 1]
               ELSE [call EXCEPT !.pc = "idle"]
  /\ UNCHANGED notCall

DgNext ==
  \/ \E address \in DgAddresses : DgRead(address)
  \/ DgSend
  \/ DgDeliver
  \/ DgRecv
  \/ DgTimeout

SpecDatagram == DgInit /\ [][DgNext]_vars

(***************************************************************************)
(* main: the gather over the poller tasks and the queue-processor task     *)
(***************************************************************************)
MainNames == <<PLC1, PLC2>>

\* main after create_tasks and the registration of signal_handler: every
\* task is running, main awaits asyncio.gather(*tasks)
MainInit ==
  /\ call = [name |-> "main", pollers |-> [n \in Range(MainNames) |-> "running"],
             tasks |-> Append(MainNames, queue_processor), items |-> <<>>,
             qp |-> "waiting", signalled |-> FALSE, main |-> "gather"]
  /\ sup = SupOff /\ udp = UdpOff
  /\ eng = EngineIdle /\ connected = FALSE /\ dec = DecIdle
  /\ plc = PlcOff /\ run = RunOff /\ loop = LoopOff
  /\ queue = QueueOff /\ qp = "off" /\ tasks = <<>>
  /\ pollers = <<>> /\ sockets = <<>>

\* task.cancel() for the tasks of a list: a poller ends with
\* CancelledError, the queue processor reaches its except clause
cancel_all(c, list) ==
  [c EXCEPT !.pollers = [n \in DOMAIN @ |-> IF n \in Range(list) THEN "done" ELSE @[n]],
            !.qp = IF queue_processor \in Range(list) /\ @ # "ended"
                     THEN "cancelled" ELSE @]

\* PLCTask.run puts its message: the connection failure at startup, or
\* too many errors followed by stop(); the task is on its way out
MainPollerReport(n) ==
  /\ call.name = "main" /\ call.pollers[n] = "running"
  /\ \E text \in ReportTexts :
       call' = [call EXCEPT !.items = Append(@, MessageOf(n, text)),
                            !.pollers[n] = "stopping"]
  /\ UNCHANGED notCall

\* PLCTask.run returns
MainPollerFinish(n) ==
  /\ call.name = "main" /\ call.pollers[n] = "stopping"
  /\ call' = [call EXCEPT !.pollers[n] = "done"]
  /\ UNCHANGED notCall

\* process_queue_async: wait_for(queue.get()) returns a message; the first
\* task of the list named in it is cancelled and removed
MainQueueGet ==
  /\ call.name = "main" /\ call.qp = "waiting" /\ call.items # <<>>
  /\ LET i == MatchingName(call.tasks, Head(call.items))
         c1 == [call EXCEPT !.items = Tail(@)]
     IN call' = IF i = 0 THEN c1
                ELSE [cancel_all(c1, <<call.tasks[i]>>) EXCEPT
                        !.tasks = RemoveTask(@, call.tasks[i])]
  /\ UNCHANGED notCall

\* process_queue_async: wait_for raises asyncio.TimeoutError after 1.0 s
\* without a message
MainQueueTimeout ==
  /\ call.name = "main" /\ call.qp = "waiting" /\ call.items = <<>>
  /\ call' = [call EXCEPT !.qp = "timeout"]
  /\ UNCHANGED notCall

\* except asyncio.TimeoutError: continue
MainQueueContinue ==
  /\ call.name = "main" /\ call.qp = "timeout"
  /\ call' = [call EXCEPT !.qp = "waiting"]
  /\ UNCHANGED notCall

\* except asyncio.CancelledError: break
MainQueueCancelled ==
  /\ call.name = "main" /\ call.qp = "cancelled"
  /\ call' = [call EXCEPT !.qp = "ended"]
  /\ UNCHANGED notCall

\* signal_handler: for task in tasks: task.cancel(), over the list the
\* queue processor removes tasks from
MainSignal ==
  /\ call.name = "main" /\ ~call.signalled /\ call.main = "gather"
  /\ call' = [cancel_all(call, call.tasks) EXCEPT !.signalled = TRUE]
  /\ UNCHANGED notCall

\* asyncio.gather(*tasks, return_exceptions=True) returns when every task
\* it was called with is done; main logs and returns
MainReturn ==
  /\ call.name = "main" /\ call.main = "gather"
  /\ \A n \in Range(MainNames) : call.pollers[n] = "done"
  /\ call.qp = "ended"
  /\ call' = [call EXCEPT !.main = "returned"]
  /\ UNCHANGED notCall

MainQueueStep ==
  \/ MainQueueGet
  \/ MainQueueTimeout
  \/ MainQueueContinue
  \/ MainQueueCancelled

MainNext ==
  \/ \E n \in Range(MainNames) : MainPollerReport(n)
  \/ \E n \in Range(MainNames) : MainPollerFinish(n)
  \/ MainQueueStep
  \/ MainSignal
  \/ MainReturn

SpecMain == MainInit /\ [][MainNext]_vars

\* the event loop resumes every task that can go on: a poller on its way
\* out, the queue processor, and main once gather is complete; a signal
\* may never come
SpecMainFair ==
  /\ SpecMain
  /\ WF_vars(\E n \in Range(MainNames) : MainPollerFinish(n))
  /\ WF_vars(MainQueueStep)
  /\ WF_vars(MainReturn)

(***************************************************************************)
(* OPCUANodeManager.run in signal-based mode                               *)
(***************************************************************************)
MaxSignals == 3

\* run() after connect(): self.running = True, the event is clear; signals
\* counts the update signals that have arrived, rescans keeps for every
\* rescan how many had arrived when it started
NmInit ==
  /\ call = [name |-> "manager", running |-> TRUE, update_requested |-> FALSE,
             pc |-> "wait", signals |-> 0, rescans |-> <<>>]
  /\ sup = SupOff /\ udp = UdpOff
  /\ eng = EngineIdle /\ connected = FALSE /\ dec = DecIdle
  /\ plc = PlcOff /\ run = RunOff /\ loop = LoopOff
  /\ queue = QueueOff /\ qp = "off" /\ tasks = <<>>
  /\ pollers = <<>> /\ sockets = <<>>

\* _file_update_handler, on the monitoring thread: update_requested.set()
file_update_handler(c) ==
  [c EXCEPT !.update_requested = TRUE, !.signals = @ + 1]

\* update_node_mapping is entered: the rescan starts
update_node_mapping(c) ==
  [c EXCEPT !.pc = "update", !.rescans = Append(@, [start |-> c.signals])]

NmSignal ==
  /\ call.name = "manager" /\ call.signals < MaxSignals
  /\ call' = file_update_handler(call)
  /\ UNCHANGED notCall

\* _signal_handler: stop()
NmStop ==
  /\ call.name = "manager" /\ call.running
  /\ call' = [call EXCEPT !.running = FALSE]
  /\ UNCHANGED notCall

\* while self.running: if self.update_requested.wait(timeout=1.0):
\* the event is set and the rescan starts, or the wait times out
NmWait ==
  /\ call.name = "manager" /\ call.pc = "wait"
  /\ call' = IF ~call.running THEN [call EXCEPT !.pc = "ended"]
             ELSE IF call.update_requested THEN update_node_mapping(call)
             ELSE [call EXCEPT !.pc = "timeout"]
  /\ UNCHANGED notCall

\* the wait has returned False: back to the loop test
NmTimeout ==
  /\ call.name = "manager" /\ call.pc = "timeout"
  /\ call' = [call EXCEPT !.pc = "wait"]
  /\ UNCHANGED notCall

\* update_node_mapping returns, True or False
NmUpdated ==
  /\ call.name = "manager" /\ call.pc = "update"
  /\ call' = [call EXCEPT !.pc = "clear"]
  /\ UNCHANGED notCall

\* self.update_requested.clear()
NmClear ==
  /\ call.name = "manager" /\ call.pc = "clear"
  /\ call' = [call EXCEPT !.update_requested = FALSE, !.pc = "wait"]
  /\ UNCHANGED notCall

NmLoop ==
  \/ NmWait
  \/ NmTimeout
  \/ NmUpdated
  \/ NmClear

NmNext ==
  \/ NmSignal
  \/ NmStop
  \/ NmLoop

SpecManager == NmInit /\ [][NmNext]_vars

\* the thread of run() is scheduled as long as it can take a step
SpecManagerFair == SpecManager /\ WF_vars(NmLoop)

(***************************************************************************)
(* Claims about the request engine                                         *)
(***************************************************************************)
EngineDone == eng.pc \in {"returned", "raised"}

\* C1: an invocation of read, batch_read or multiple_read that ends in an
\* address error or a data-type error has sent no command frame.
C1_NoFrameBeforeInputError ==
  (eng.pc = "raised"
     /\ eng.exc \in {"FinsAddressError", "FinsDataError", "ValueError", "OverflowError"})
  => Len(eng.sent) = 0

NoResponseIn(log) == \A i \in 1..Len(log) : ~IsResponse(log[i])

C3_Safety ==
  /\ eng.x_sends = Len(eng.x_log)
  /\ Len(eng.x_log) <= MAX_RETRIES
  /\ eng.x_result = "bytes" =>
       /\ Len(eng.x_log) >= 1
       /\ IsResponse(eng.x_log[Len(eng.x_log)])
       /\ NoResponseIn(SubSeq(eng.x_log, 1, Len(eng.x_log) - 1))
       /\ eng.x_from = Len(eng.x_log)
  /\ eng.x_result = "FinsTimeoutError" =>
       /\ Len(eng.x_log) = MAX_RETRIES
       /\ NoResponseIn(eng.x_log)
       /\ eng.x_log[MAX_RETRIES] = "timeout"
  /\ eng.x_result = "FinsConnectionError" =>
       \/ Len(eng.x_log) = 0
       \/ /\ Len(eng.x_log) = MAX_RETRIES
          /\ NoResponseIn(eng.x_log)
          /\ eng.x_log[MAX_RETRIES] = "sockerr"
  /\ (eng.x_result = "none" /\ eng.pc \in {"send", "backoff"}) =>
       /\ Len(eng.x_log) < MAX_RETRIES
       /\ eng.attempt = Len(eng.x_log)
       /\ NoResponseIn(eng.x_log)

\* C3: execute_fins_command_frame sends once per attempt, makes at most
\* MAX_RETRIES attempts, returns the bytes of the first attempt that is
\* answered, raises FinsTimeoutError or FinsConnectionError according to
\* the last attempt when all of them fail, and always comes to an end.
C3_ExecuteRetriesAndEnds ==
  /\ []C3_Safety
  /\ (eng.x_result = "none" /\ eng.pc \in {"send", "backoff"}) ~> (eng.x_result # "none")

C3_Witness ==
  /\ eng.x_result = "FinsTimeoutError"
  /\ eng.x_log = <<"sockerr", "timeout", "timeout">>

\* C4: once a chunk's response carries an end code other than success, read
\* and batch_read have finished with an error and no frame follows the one
\* that was answered with that end code.
C4_NoFrameAfterBadEndCode ==
  eng.bad_end_at # 0 =>
    /\ eng.pc = "returned"
    /\ eng.result.status = "error"
    /\ Len(eng.sent) = eng.bad_end_at

C4_Witness ==
  /\ eng.op.name = "batch_read"
  /\ eng.bad_end_at # 0
  /\ eng.ci < Len(eng.chunks)

\* the address of some chunk of the request lies outside the word range
ChunkOutOfRange(op) ==
  LET wpi == DATA_TYPE_MAPPING[op.data_type]
      words == IF op.name = "read"
                 THEN (IF Contains(op.address, ".") THEN 1 ELSE wpi)
                 ELSE op.n * wpi
      cs == calculate_read_chunks(words)
  IN \E k \in 1..Len(cs) : ~parse(op.address, cs[k].offset).ok

InputError(op) ==
  \/ op.name = "multiple_read"
  \/ ~validate_address(op.address)
  \/ ~validate_data_type(op.data_type)
  \/ ~validate_read_size(op.n)
  \/ ~parse(op.address, 0).ok
  \/ ChunkOutOfRange(op)

ReadReturns == Busy /\ run.pc \in {"fallback", "single"} /\ eng.pc \in {"returned", "raised"}

ReadFailed(e) == e.pc = "raised" \/ e.result.status # "success"

\* C6: every read of an address in a cycle that fails, by an end code, by
\* a transport failure after the retries or by an address or type error,
\* sets the tag to null and adds exactly one to failed_to_read.
C6_FailedReadCountedOnce ==
  [][(ReadReturns /\ ReadFailed(eng))
       => /\ plc'.failed_to_read = plc.failed_to_read + 1
          /\ run'.plc_values[CurrentList[run.ii].opcua_reg] = Null]_vars

TooManyPut == \E i \in 1..Len(queue.puts) : queue.puts[i] = Message(TooManyErrorsText)

C7_Inv ==
  /\ plc.failed_to_read > threshold => (TooManyPut /\ plc.stopped)
  /\ plc.failed_to_read <= threshold => ~TooManyPut

\* C7: once failed_to_read is above the threshold the too-many-errors
\* message has been put on the control queue and no cycle starts any more;
\* while it is at most the threshold the message has not been put.
C7_TooManyErrorsEndsPolling ==
  /\ []C7_Inv
  /\ [][plc.failed_to_read > threshold => run'.cycle = run.cycle]_vars

C7_Witness ==
  /\ plc.failed_to_read > threshold
  /\ TooManyPut
  /\ run.cycle < MaxCycles
  /\ run.exit = "returned"

\* C8: however a poller that opened its socket ends, the socket is closed
\* and the CSV file is not left open.
C8_ReleasedOnEveryExit ==
  (run.pc = "ended" /\ run.socket_opened) => (~connected /\ plc.csv_file # "open")

\* C9: once the stop event is set no cycle begins, the socket and the CSV
\* file are closed only when no sink task is outstanding, and no sink task
\* is outstanding when the poller has ended.
C9_StopFinishesSinksThenCloses ==
  /\ [][plc.stopped => run'.cycle = run.cycle]_vars
  /\ [][(plc.stopped /\ (\/ connected /\ ~connected'
                         \/ plc.csv_file = "open" /\ plc'.csv_file = "closed"))
          => PendingSinks = {}]_vars
  /\ []((plc.stopped /\ run.pc = "ended") => PendingSinks = {})

C9_Witness ==
  /\ plc.stopped
  /\ run.exit = "returned"
  /\ plc.background_tasks # {}
  /\ ~connected
  /\ plc.csv_file = "closed"

C10_Inv ==
  \A s1 \in PendingSinks, s2 \in PendingSinks :
    s1.cycle = s2.cycle /\ (s1.kind = s2.kind => s1 = s2)

\* C10: the sink tasks of a cycle are created only when none of an earlier
\* cycle is outstanding, and the outstanding sink tasks are of one cycle,
\* at most one CSV task and one OPC UA task.
C10_OneCyclePipeline ==
  /\ []C10_Inv
  /\ [][(PendingSinks' \ PendingSinks # {}) => PendingSinks = {}]_vars

C10_Witness == \E t \in PendingSinks : t.cycle = 2 /\ Cardinality(PendingSinks) = 2


(***************************************************************************)
(* Claims about several pollers                                            *)
(***************************************************************************)
C11_Inv ==
  /\ \A s \in DOMAIN sockets :
       /\ Cardinality(sockets[s].outstanding) <= 1
       /\ Cardinality(sockets[s].users) <= 1
  /\ \A p, q \in PollerIds :
       p # q /\ pollers[p].fins # 0 /\ pollers[q].fins # 0
         => pollers[p].fins # pollers[q].fins

\* a frame goes out on a socket only when no other request is outstanding
\* on it (a further pass of the same request sends its frame again)
C11_Send ==
  \A s \in DOMAIN sockets :
    sockets'[s].sent > sockets[s].sent
      => sockets[s].outstanding \subseteq {sockets'[s].last}

\* C11: at most one FINS request is outstanding on a poller's socket at any
\* time, a frame is sent only after the request before it on that socket
\* has ended, and no socket is used by more than one poller, however the
\* pollers and the sink tasks interleave.
C11_SingleFlightOwnSocket == []C11_Inv /\ [][C11_Send]_vars

\* poller 1 sleeps between two passes of a request while poller 2, whose
\* sink task is still to run, has sent on its own socket
C11_Witness ==
  /\ pollers[1].waiting /\ pollers[2].fins # 0 /\ pollers[2].sinks > 0
  /\ sockets[pollers[1].fins].outstanding # {}
  /\ sockets[pollers[2].fins].sent > 1


(***************************************************************************)
(* Claims about the sample of a cycle                                      *)
(***************************************************************************)
IsValue(x) == x # Unset /\ x # Null

\* C12: the heartbeat handed to the sinks with the sample of a cycle is
\* true exactly when at least one read of that cycle delivered a value.
C12_HeartbeatIffSomeValue ==
  \A c \in 1..Len(plc.samples) :
    plc.samples[c].plc_cycle_ok
      <=> \E k \in 1..Len(plc.mappings) : IsValue(plc.samples[c].plc_values[k])

\* a sample with a true heartbeat in which one read delivered a value and
\* another one failed, followed by a sample whose reads all failed
C12_Witness ==
  /\ Len(plc.samples) = 2
  /\ plc.samples[1].plc_cycle_ok
  /\ \E k \in 1..Len(plc.mappings) : plc.samples[1].plc_values[k] = Null
  /\ ~plc.samples[2].plc_cycle_ok


\* the reads that follow call i of the cycle, as far as they were made
CallsAfter(i, n) ==
  SubSeq(run.calls, i + 1, IF i + n < Len(run.calls) THEN i + n ELSE Len(run.calls))

\* the reads of _single_read_fallback for the entries of a list
ReadsOf(list, group) == [j \in 1..Len(list) |-> ReadCall(group, list[j].opcua_reg)]

IsPrefix(a, b) == Len(a) <= Len(b) /\ a = SubSeq(b, 1, Len(a))

\* the reads of the cycle are over and run has not been cancelled
CycleRead == run.pc \in {"write", "gather", "dispatch", "sleep"} /\ run.cycle > 0

PlanBuilt == run.pc = "start"

\* the entries of the groups, one group after the other
GroupedEntries ==
  LET RECURSIVE Cat(_)
      Cat(g) == IF g > Len(plc.groups) THEN <<>> ELSE plc.groups[g] \o Cat(g + 1)
  IN Cat(1)

\* the entries of the plan: the groups, then the individual reads
PlanEntries == GroupedEntries \o plc.singles

HeartbeatMappings == {k \in 1..Len(plc.mappings) : plc.mappings[k].plc_reg_add = HEARTBEAT}

\* C14: the plan built at startup holds every mapping that is not a
\* HEARTBEAT mapping exactly once over its groups and its individual reads,
\* holds no HEARTBEAT entry, and the grouped entries, the individual reads
\* and the HEARTBEAT mappings together are as many as the mappings.
C14_PlanPartition ==
  PlanBuilt =>
    /\ \A k \in 1..Len(plc.mappings) :
         k \notin HeartbeatMappings =>
           /\ Cardinality({i \in 1..Len(PlanEntries) : PlanEntries[i].opcua_reg = k}) = 1
           /\ \A i \in 1..Len(PlanEntries) :
                PlanEntries[i].opcua_reg = k =>
                  PlanEntries[i].plc_reg = plc.mappings[k].plc_reg_add
    /\ \A i \in 1..Len(PlanEntries) :
         /\ PlanEntries[i].plc_reg # HEARTBEAT
         /\ PlanEntries[i].opcua_reg \in (1..Len(plc.mappings)) \ HeartbeatMappings
    /\ Len(PlanEntries) + Cardinality(HeartbeatMappings) = Len(plc.mappings)

\* a plan with grouped entries and an individual read, built from
\* mappings with a HEARTBEAT entry among them
C14_Witness ==
  /\ PlanBuilt /\ HeartbeatMappings # {}
  /\ Len(plc.groups) > 0 /\ Len(plc.singles) > 0
  /\ Len(PlanEntries) + 1 = Len(plc.mappings)


\* the data types of one word, in the spelling of the configuration
IsOneWord(mapping) == mapping.data_type \in {"int16", "bool", "raw"}

\* the mappings of one kind, by their place in the list, in mapping order
MappingsWhere(one_word) ==
  SelectSeq([k \in 1..Len(plc.mappings) |-> k],
            LAMBDA k : k \notin HeartbeatMappings
                       /\ IsOneWord(plc.mappings[k]) = one_word)

TagsOf(entries) == [i \in 1..Len(entries) |-> entries[i].opcua_reg]

\* C15: the groups of the plan are the one-word mappings cut in mapping
\* order into consecutive groups: no group is empty or longer than 20, every
\* group but the last has exactly 20 entries, the groups put together are
\* the one-word mappings in mapping order, and the individual reads are the
\* other mappings in mapping order; 25 INT16 mappings, a FLOAT mapping and
\* the heartbeat give groups of 20 and 5 and one individual read.
C15_GroupsOfTwenty ==
  PlanBuilt =>
    /\ \A g \in 1..Len(plc.groups) :
         /\ Len(plc.groups[g]) >= 1 /\ Len(plc.groups[g]) <= 20
         /\ g < Len(plc.groups) => Len(plc.groups[g]) = 20
    /\ TagsOf(GroupedEntries) = MappingsWhere(TRUE)
    /\ TagsOf(plc.singles) = MappingsWhere(FALSE)
    /\ plc.mappings = ExampleMappings =>
         /\ Len(plc.groups) = 2
         /\ Len(plc.groups[1]) = 20 /\ Len(plc.groups[2]) = 5
         /\ Len(plc.singles) = 1

\* the plan of the example
C15_Witness ==
  /\ PlanBuilt /\ plc.mappings = ExampleMappings
  /\ Len(plc.groups) = 2 /\ Len(plc.singles) = 1


\* the multiple read of group g is not known to have succeeded
GroupFailed(g) == MultipleReadCall(g, FALSE) \notin Range(run.calls)

\* the calls of a whole cycle in plan order, from group g on
RECURSIVE CallsFrom(_)
CallsFrom(g) ==
  IF g > Len(plc.groups) THEN ReadsOf(plc.singles, 0)
  ELSE <<MultipleReadCall(g, GroupFailed(g))>>
         \o (IF GroupFailed(g) THEN ReadsOf(plc.groups[g], g) ELSE <<>>)
         \o CallsFrom(g + 1)

\* what is on the wire belongs to the last call made
C16_Inv ==
  /\ IsPrefix(run.calls, CallsFrom(1))
  /\ CycleRead => run.calls = CallsFrom(1)
  /\ run.pc \in {"group", "fallback", "single"} /\ eng.pc \in {"send", "backoff"} =>
       /\ Len(run.calls) > 0
       /\ run.calls[Len(run.calls)].op = "read"
       /\ eng.op.address = plc.mappings[run.calls[Len(run.calls)].tag].plc_reg_add

\* a call is made only when no request is in progress, one call at a time
C16_Call ==
  run'.calls # run.calls /\ run'.calls # <<>> =>
    /\ eng.pc = "idle"
    /\ Len(run'.calls) = Len(run.calls) + 1
    /\ run.calls = SubSeq(run'.calls, 1, Len(run.calls))

\* C16: in a cycle the calls on the connection are made in plan order: the
\* multiple reads of the groups in group order, each followed at once by
\* the single reads of its own entries if it failed, then the individual
\* reads in list order; and no call is made before the request of the call
\* before it has come to its end.
C16_PlanOrder == []C16_Inv /\ [][C16_Call]_vars

\* a cycle of two groups and an individual read was read to its end: two
\* multiple reads and a single read for every mapping
C16_Witness ==
  /\ run.pc = "write" /\ Len(plc.groups) = 2 /\ Len(plc.singles) = 1
  /\ run.calls = CallsFrom(1)
  /\ Len(run.calls) = Len(plc.mappings) + 2


(***************************************************************************)
(* Claims about the CSV sink                                               *)
(***************************************************************************)
\* C17: every row the CSV sink writes has, after its timestamp, one column
\* for every entry of address_mappings, in mapping order as in the header:
\* the heartbeat of the cycle for a HEARTBEAT entry, a value for a tag whose
\* read succeeded in that cycle, the null marker for every other tag.
C17_RowFollowsMappings ==
  \A i \in 1..Len(plc.csv_rows) :
    LET row == plc.csv_rows[i]
        sample == plc.samples[row.timestamp]
    IN /\ Len(row.columns) = Len(plc.mappings)
       /\ Len(row.columns) = Len(csv_header(plc.mappings))
       /\ \A k \in 1..Len(plc.mappings) :
            IF plc.mappings[k].plc_reg_add = HEARTBEAT
              THEN row.columns[k] = Bool(sample.plc_cycle_ok)
            ELSE IF csv_header(plc.mappings)[k] \in sample.succeeded
              THEN IsValue(row.columns[k]) /\ row.columns[k] = sample.plc_values[k]
            ELSE row.columns[k] = Null

\* a row was written with a true heartbeat, a value and a null marker
C17_Witness ==
  \E i \in 1..Len(plc.csv_rows) :
    LET columns == plc.csv_rows[i].columns IN
    /\ \E k \in 1..Len(columns) : columns[k] = Bool(TRUE)
    /\ \E k \in 1..Len(columns) : columns[k] = Null
    /\ \E k \in 1..Len(columns) : IsValue(columns[k]) /\ columns[k] # Bool(TRUE)


(***************************************************************************)
(* Claims about chunking                                                   *)
(***************************************************************************)
RECURSIVE SumOfSizes(_, _)
SumOfSizes(chunks, n) == IF n = 0 THEN 0 ELSE chunks[n].size + SumOfSizes(chunks, n - 1)

\* C18: for a total of W words (W >= 0) the chunks have sizes from 1 to 990
\* that add up to W, the first offset is 0 and every offset is the sum of
\* the sizes before it, and every chunk but the last has size 990; 2000
\* words give (0, 990), (990, 990), (1980, 20).
C18_ChunksCoverTotal ==
  eng.pc = "returned" /\ eng.op.name = "calculate_read_chunks" =>
    /\ \A i \in 1..Len(eng.chunks) :
         /\ eng.chunks[i].size >= 1 /\ eng.chunks[i].size <= 990
         /\ eng.chunks[i].offset = SumOfSizes(eng.chunks, i - 1)
         /\ i < Len(eng.chunks) => eng.chunks[i].size = 990
    /\ SumOfSizes(eng.chunks, Len(eng.chunks)) = eng.op.n
    /\ eng.op.n = 2000 =>
         eng.chunks = <<[offset |-> 0, size |-> 990], [offset |-> 990, size |-> 990],
                        [offset |-> 1980, size |-> 20]>>

\* the chunks of 2000 words
C18_Witness ==
  /\ eng.pc = "returned" /\ eng.op.name = "calculate_read_chunks"
  /\ eng.op.n = 2000 /\ Len(eng.chunks) = 3


\* batch_read has ended after its chunk loop was entered, and not with a
\* success: a chunk could not be read
BatchReadFailed ==
  /\ eng.op.name = "batch_read" /\ EngineDone /\ Len(eng.chunks) > 0
  /\ ~(eng.pc = "returned" /\ eng.result.status = "success")

\* the chunks read before the one that failed
ChunksBefore == IF eng.pc = "returned" THEN eng.ci - 1 ELSE eng.ci

\* the words the PLC holds in the first k chunks, from the start address on
WordsOfChunks(k) ==
  [j \in 1..SumOfSizes(eng.chunks, k) |->
     PlcWord(parse(eng.op.address, 0).word_address + j - 1)]

\* a batch_read that ended in a result with status 'error' carries the
\* items of the chunks read before the failure and nothing else
C19_Returned ==
  BatchReadFailed /\ eng.pc = "returned" =>
    /\ eng.result.status = "error"
    /\ Len(eng.result.data) =
         Len(WordsOfChunks(ChunksBefore)) \div DATA_TYPE_MAPPING[eng.op.data_type]
    /\ eng.result.data = ItemsOf(WordsOfChunks(ChunksBefore), eng.op.data_type)

\* C19: when batch_read fails at chunk k after the chunks before it were
\* read, it returns a result with status 'error' whose data is exactly the
\* items decoded from the bytes of those chunks, in order, as many as fit
\* into them; no item of the failed chunk or of a later chunk is in it.
C19_PartialItemsOnFailure ==
  BatchReadFailed => eng.pc = "returned" /\ C19_Returned


(***************************************************************************)
(* Claims about the request of multiple_read                               *)
(***************************************************************************)
\* the four bytes of an entry of the request: area code (by its area and
\* access), word offset, bit number
EntryOf(item) ==
  LET info == parse(item.address, 0) IN
  [memory_area |-> info.memory_area, access |-> info.access,
   word_address |-> info.word_address,
   bit |-> IF info.address_type = "bit" THEN info.bit_number ELSE 0]

\* C20: for a non-empty dictionary of k valid addresses multiple_read sends
\* exactly one command 0104 whose payload is the count k followed by one
\* entry per address in dictionary order: area code, word offset and bit
\* number (0 for a word address).
C20_OneMultipleReadFrame ==
  /\ eng.op.name = "multiple_read" /\ EngineDone
  /\ Len(eng.op.items) > 0
  /\ \A i \in 1..Len(eng.op.items) :
       /\ validate_address(eng.op.items[i].address)
       /\ parse(eng.op.items[i].address, 0).ok
  =>
  /\ Len(eng.sent) = 1
  /\ eng.sent[1].command = "MULTIPLE_MEMORY_AREA_READ"
  /\ eng.sent[1].count = Len(eng.op.items)
  /\ eng.sent[1].entries = [i \in 1..Len(eng.op.items) |-> EntryOf(eng.op.items[i])]


\* C21: multiple_read rejects a group of more than 20 entries with a data
\* error and sends no packet for it.
C21_OversizedGroupRejected ==
  (eng.op.name = "multiple_read" /\ EngineDone /\ Len(eng.op.items) > batch_size)
  => (eng.pc = "raised" /\ eng.exc = "FinsDataError" /\ Len(eng.sent) = 0)


(***************************************************************************)
(* Claims about the supervisor                                             *)
(***************************************************************************)
\* C22: whatever the configured PLC names and the order of the tasks, a
\* task the queue processor cancels for a report is the task of the poller
\* that made the report, never the task of another poller.
C22_OnlyReporterCancelled ==
  \A c \in sup.cancelled : c.task = c.from


(***************************************************************************)
(* Claims about the transport                                              *)
(***************************************************************************)
\* last_activity is set to the time of every successful receive and is left
\* alone by every failed attempt
C23_Activity ==
  /\ udp'.last = "received" => udp'.last_activity = udp'.now
  /\ udp'.last \in {"failed", "FinsTimeoutError", "FinsConnectionError"}
       => udp'.last_activity = udp.last_activity

C23_ActivityOnReceiveOnly == [][C23_Activity]_vars

C23_ConnectedIffHealthy ==
  udp.connected <=> (udp.socket /\ ~udp.terminal)

\* C23: in every state of the transport connected is true exactly when a
\* socket is open and no request has used up its retries since it was
\* opened; last_activity advances on every successful receive and on no
\* failed attempt.
C23_ConnectedAndActivity ==
  []C23_ConnectedIffHealthy /\ [][C23_Activity]_vars


(***************************************************************************)
(* Claims about conversion failures                                        *)
(***************************************************************************)
\* the words the PLC holds for the item of wpi words that starts i items
\* after the address
WordsAt(address, wpi, i) ==
  [k \in 1..wpi |-> PlcWord(parse(address, 0).word_address + (i - 1) * wpi + k - 1)]

\* batch_read: each item received is returned converted, or as null when its
\* conversion fails, and a result with every item received is a success
C24_BatchItems ==
  (eng.op.name = "batch_read" /\ eng.pc = "returned") =>
    LET wpi == DATA_TYPE_MAPPING[eng.op.data_type]
        got == Len(eng.data) \div wpi
    IN /\ Len(eng.result.data) = got
       /\ \A i \in 1..got :
            LET c == Convert(eng.op.data_type, WordsAt(eng.op.address, wpi, i)) IN
            IF c.ok THEN eng.result.data[i] = c.value ELSE eng.result.data[i] = Null
       /\ got = eng.op.n => eng.result.status = "success"

\* a multiple_read of valid addresses and known types in which the word of
\* some entry cannot be converted
ConversionFailsInGroup ==
  /\ eng.op.name = "multiple_read" /\ EngineDone
  /\ Len(eng.op.items) > 0
  /\ \A i \in 1..Len(eng.op.items) :
       /\ validate_address(eng.op.items[i].address)
       /\ parse(eng.op.items[i].address, 0).ok
       /\ validate_data_type(eng.op.items[i].data_type)
  /\ \E i \in 1..Len(eng.op.items) :
       ~Convert(eng.op.items[i].data_type,
                WordsAt(eng.op.items[i].address,
                        DATA_TYPE_MAPPING[eng.op.items[i].data_type], 1)).ok

\* multiple_read: the entry that cannot be converted is returned as an error
\* entry, every other entry with its value, in a successful result
C24_MultipleReadItems ==
  ConversionFailsInGroup =>
    /\ eng.pc = "returned"
    /\ eng.result.status = "success"
    /\ Len(eng.result.data) = Len(eng.op.items)
    /\ \A i \in 1..Len(eng.op.items) :
         LET it == eng.op.items[i]
             c == Convert(it.data_type,
                          WordsAt(it.address, DATA_TYPE_MAPPING[it.data_type], 1))
         IN IF c.ok THEN eng.result.data[i] = [type |-> it.data_type, value |-> c.value]
            ELSE "error" \in DOMAIN eng.result.data[i]

\* C24: in batch_read and in multiple_read an item whose conversion fails
\* becomes a null or error entry of the result, every other item of the
\* response is returned decoded, and the operation does not fail as a whole.
C24_ConversionFailureIsPerItem ==
  C24_BatchItems /\ C24_MultipleReadItems

\* a batch_read that returned converted items next to a null
C24_BatchWitness ==
  /\ eng.op.name = "batch_read" /\ eng.pc = "returned"
  /\ eng.result.status = "success"
  /\ LET wpi == DATA_TYPE_MAPPING[eng.op.data_type] IN
     \E i, j \in 1..Len(eng.result.data) :
       /\ ~Convert(eng.op.data_type, WordsAt(eng.op.address, wpi, i)).ok
       /\ Convert(eng.op.data_type, WordsAt(eng.op.address, wpi, j)).ok


(***************************************************************************)
(* Claims about the address parser                                         *)
(***************************************************************************)
Parsed == call.name = "parse" /\ call.done

\* C25: for a valid address and an offset that keeps the word address within
\* 0..65535, parse(addr, off) gives the area code, kind and bit number of
\* parse(addr, 0) and the word address of parse(addr, 0) plus off.
C25_ParserIsOffsetLinear ==
  Parsed =>
    LET base == parse(call.address, 0)
        r == call.result
    IN (base.ok /\ base.word_address + call.offset \in 0..MAX_WORD_ADDRESS) =>
         /\ r.ok
         /\ r.memory_area = base.memory_area /\ r.access = base.access
         /\ r.address_type = base.address_type
         /\ r.bit_number = base.bit_number
         /\ r.word_address = base.word_address + call.offset

\* the bit address e1200.15 of bank EM1 parsed with offset 990
C25_Witness ==
  /\ Parsed /\ call.address = <<"e", "1", "2", "0", "0", ".", "1", "5">>
  /\ call.offset = 990
  /\ call.result.ok /\ call.result.word_address = 1190
  /\ call.result.bit_number = 15 /\ call.result.memory_area = "EM1"


HexDigits == Digits \cup {"A", "B", "C", "D", "E", "F"}

\* C26: the word address E<b><tail>, b one hex digit 0..F and tail two or
\* more decimal digits, parses to the word area of bank EM<b> with the
\* decimal value of the tail as word address (EA050: EMA, word 50).
C26_SingleHexBank ==
  (/\ Parsed /\ call.offset = 0
   /\ Len(call.address) >= 4
   /\ call.address[1] = "E" /\ call.address[2] \in HexDigits
   /\ isdigit(Drop(call.address, 2)))
  =>
  /\ call.result.ok
  /\ call.result.address_type = "word"
  /\ call.result.memory_area = em_single_banks[call.address[2]]
  /\ call.result.access = "WORD"
  /\ call.result.word_address = DecValue(Drop(call.address, 2))

\* the address up to its bit suffix, and what follows the prefix E in it
BaseOf(address) ==
  IF Contains(address, ".") THEN Take(address, IndexOf(address, ".") - 1) ELSE address

\* C27: after the prefix E, two decimal digits forming a bank 10..18 that are
\* followed by three or more digits select that two-digit bank and the rest
\* is the word address (E10200: EM10, word 200); in every other case the
\* first character selects the single-digit bank (E1200: EM1, word 200).
C27_BankChoice ==
  (/\ Parsed /\ call.offset = 0 /\ call.result.ok
   /\ Len(call.address) >= 2
   /\ Upper(call.address[1]) = "E" /\ Upper(call.address[2]) # "M")
  =>
  LET addr_part == Drop(BaseOf(call.address), 1) IN
  IF /\ Len(addr_part) >= 5
     /\ Take(addr_part, 2) \in DOMAIN em_double_banks
     /\ isdigit(Drop(addr_part, 2))
    THEN /\ call.result.memory_area = em_double_banks[Take(addr_part, 2)]
         /\ call.result.word_address = DecValue(Drop(addr_part, 2))
    ELSE /\ call.result.memory_area = em_single_banks[Upper(addr_part[1])]
         /\ call.result.word_address = DecValue(Drop(addr_part, 1))

\* the text after the first '.' of an address
BitSuffix(address) == Drop(address, IndexOf(address, "."))

\* C28: a result of parse is of kind bit exactly when the address has a
\* '.bit' suffix, and its bit number is then in 0..15; an address whose
\* suffix is above 15 or is no number is refused with the parser's address
\* error and gives no result.
C28_BitKindAndRange ==
  Parsed =>
    /\ call.result.ok =>
         /\ call.result.address_type = "bit" <=> Contains(call.address, ".")
         /\ call.result.address_type = "bit" => call.result.bit_number \in 0..15
         /\ call.result.address_type = "word" => call.result.bit_number = NoBit
    /\ (/\ Contains(call.address, ".")
        /\ \/ ~isdigit(BitSuffix(call.address))
           \/ DecValue(BitSuffix(call.address)) > 15)
       => (~call.result.ok /\ call.result.exc = "ValueError")

\* D100.16 was refused
C28_Witness ==
  /\ Parsed /\ call.address = A_D100_16
  /\ ~call.result.ok /\ call.result.exc = "ValueError"

\* the prefixes of the address grammar: a first digit (CIO), D, W, H, A, T,
\* C, E with a hex digit, EM with two decimal digits, in either case
InGrammar(address) ==
  LET up == UpperStr(address) IN
  /\ Len(up) > 0
  /\ \/ up[1] \in Digits
     \/ up[1] \in {"D", "W", "H", "A", "T", "C"}
     \/ Len(up) >= 2 /\ up[1] = "E" /\ up[2] \in HexDigits
     \/ Len(up) >= 4 /\ up[1] = "E" /\ up[2] = "M" /\ isdigit(SubSeq(up, 3, 4))

\* C29: parse refuses with the parser's address error the empty address and
\* every address whose prefix is not of the address grammar; no other
\* letter, such as X or Z, is taken as an area prefix.
C29_UnknownPrefixRefused ==
  (Parsed /\ call.offset = 0 /\ ~InGrammar(call.address))
  => (~call.result.ok /\ call.result.exc = "ValueError")


(***************************************************************************)
(* Claims about the value of a bool mapping                                *)
(***************************************************************************)
\* the bits of a word, bit 0 the least significant
RECURSIVE BitsOf(_, _)
BitsOf(word, k) == IF k = 0 THEN <<>> ELSE <<word % 2>> \o BitsOf(word \div 2, k - 1)

\* C30: for a word held as a 4-digit hex string and the bit number n of the
\* '.N' suffix of the address, n in 0..15, the value written to OPC UA is
\* bit n of the word, bit 0 being the least significant; the bit number of
\* an address without a suffix is 0; a hex string of fewer than 4 digits
\* gives 0.
C30_BitOfHexWord ==
  (call.name = "bool" /\ call.done) =>
    /\ ~Contains(call.plc_address, ".") => call.bit_number = 0
    /\ Contains(call.plc_address, ".") =>
         /\ call.bit_number = DecValue(Drop(call.plc_address, IndexOf(call.plc_address, ".")))
         /\ Len(call.plc_value) = 4 =>
              call.opcua_value = [bit |-> BitsOf(call.word, 16)[call.bit_number + 1]]
         /\ Len(call.plc_value) < 4 => call.opcua_value = [bit |-> 0]

\* bit 7 of 8080 at 142.07 was written as 1
C30_Witness ==
  /\ call.name = "bool" /\ call.done
  /\ call.plc_value = <<"8", "0", "8", "0">>
  /\ call.plc_address = <<"1", "4", "2", ".", "0", "7">>
  /\ call.opcua_value = [bit |-> 1]

(***************************************************************************)
(* Claims about the requests of BOOL mappings                              *)
(***************************************************************************)
\* the mapping the poller is reading for is a BOOL mapping with a bit suffix
ReadingBoolBit ==
  /\ run.pc \in {"fallback", "single"}
  /\ eng.op.name = "read"
  /\ run.ii <= Len(CurrentList)
  /\ upper(plc.mappings[CurrentList[run.ii].opcua_reg].data_type) = "BOOL"
  /\ Contains(plc.mappings[CurrentList[run.ii].opcua_reg].plc_reg_add, ".")

\* C31: the request sent for a BOOL mapping A.N reads the whole word at A:
\* INT16 width, word access, bit field 0, one word
C31_BoolReadsWholeWord ==
  ReadingBoolBit =>
    /\ eng.op.data_type = "INT16"
    /\ \A i \in 1..Len(eng.sent) :
         /\ eng.sent[i].command = "MEMORY_AREA_READ"
         /\ eng.sent[i].access = "WORD"
         /\ eng.sent[i].bit = 0
         /\ eng.sent[i].count = 1

(***************************************************************************)
(* Claims about datagrams                                                  *)
(***************************************************************************)
\* C32: every value reported for a read was decoded from a response to a
\* request that this read sent for this address; a response to a request
\* of an earlier read is never taken as the answer
C32_AnswerBelongsToRequest ==
  call.name = "datagram" =>
    \A i \in 1..Len(call.reports) :
      /\ call.reports[i].from.read = call.reports[i].read
      /\ call.reports[i].from.address = call.reports[i].address

(***************************************************************************)
(* Claims about the chunks of batch_read                                   *)
(***************************************************************************)
\* the frames sent, a frame sent again by the retry loop counted once
RECURSIVE Requests(_)
Requests(sent) ==
  IF Len(sent) <= 1 THEN sent
  ELSE LET rest == Requests(SubSeq(sent, 1, Len(sent) - 1)) IN
       IF sent[Len(sent)] = sent[Len(sent) - 1] THEN rest
       ELSE Append(rest, sent[Len(sent)])

BatchReadSucceeded ==
  /\ eng.op.name = "batch_read"
  /\ eng.pc = "returned"
  /\ eng.result.status = "success"

\* total words of the batch_read in progress
BatchWords == eng.op.n * DATA_TYPE_MAPPING[eng.op.data_type]

SinksDone(cycle) ==
  /\ cycle \in 1..Len(plc.samples)
  /\ \A i \in 1..Len(loop.ready) :
       loop.ready[i] \in {PollerTask, QueueTask} \/ loop.ready[i].cycle # cycle

\* C34: the sample of every cycle reaches a sink: when its OPC UA publish
\* was not performed or failed, its row is in the CSV file, in whatever
\* order the two sink tasks of the cycle ran and also with CSV mode off
C34_SampleReachesASink ==
  \A cycle \in 1..Len(plc.samples) :
    SinksDone(cycle) =>
      \/ cycle \in plc.published
      \/ \E i \in 1..Len(plc.csv_rows) : plc.csv_rows[i].timestamp = cycle

(***************************************************************************)
(* Claims about the too-many-errors message                                *)
(***************************************************************************)
\* the too-many-errors messages put on the control queue so far
TooManyErrorsPuts ==
  {i \in 1..Len(queue.puts) : queue.puts[i] = Message(TooManyErrorsText)}

\* C35: a poller puts at most one too-many-errors message on the control
\* queue, however many reads fail in the cycle that crosses the threshold
C35_OneTooManyErrorsMessage == Cardinality(TooManyErrorsPuts) <= 1

(***************************************************************************)
(* Claims about the two data-type tables                                   *)
(***************************************************************************)
\* the poller is in a read of an entry whose type the planner knows
ReadingKnownType ==
  /\ run.pc \in {"fallback", "single"}
  /\ eng.op.name = "read"
  /\ eng.op.data_type \in DOMAIN COMPONENTS_DATA_TYPE_MAPPING

\* C36: a type name the planner's table knows is known to the engine's
\* table with the same words per item, so the engine never refuses as an
\* invalid type an entry the planner placed as a known type
C36_TablesAgree ==
  ReadingKnownType =>
    /\ validate_data_type(eng.op.data_type)
    /\ DATA_TYPE_MAPPING[eng.op.data_type]
         = COMPONENTS_DATA_TYPE_MAPPING[eng.op.data_type]
    /\ ~(eng.pc = "raised" /\ eng.exc = "FinsDataError")

(***************************************************************************)
(* Claims about the return of main                                         *)
(***************************************************************************)
AllPollersDone ==
  /\ call.name = "main"
  /\ \A n \in Range(MainNames) : call.pollers[n] = "done"

\* C37: once every poller task has finished, by stop, by a startup
\* failure or by the supervisor's cancel, main eventually returns
C37_MainReturns == AllPollersDone ~> (call.name = "main" /\ call.main = "returned")

(***************************************************************************)
(* Claims about the node manager                                           *)
(***************************************************************************)
\* a rescan has started after the k-th update signal arrived
RescanAfter(k) ==
  \E i \in 1..Len(call.rescans) : call.rescans[i].start >= k

\* C38: in signal-based mode every update signal is followed, while the
\* manager runs, by a rescan that starts after the signal arrived, also
\* when the signal arrives during the rescan of an earlier signal
C38_NoSignalLost ==
  \A k \in 1..MaxSignals :
    (call.name = "manager" /\ call.signals >= k)
      ~> (call.name = "manager" /\ (RescanAfter(k) \/ ~call.running))

====
